---- MODULE Spec2Model ----
(***************************************************************************)
(* A model of awlkit: the intermediate representation (TypeSpec, Input,    *)
(* Output, Runtime, Task, WorkflowCall, Workflow), the two parsers, the    *)
(* two writers, the WDL-to-CWL converter, the dependency-graph analyzer    *)
(* and the validator.                                                      *)
(*                                                                         *)
(* Conventions.                                                            *)
(*  - A Python str that the code slices, searches or matches with a        *)
(*    regular expression is a sequence of one-character strings.  The      *)
(*    closed vocabularies the code only compares (DataType members, CWL    *)
(*    type tokens, CWL class names, finding levels) are TLA+ strings.      *)
(*  - Optional[X] is a sequence of length at most one: <<>> is None and    *)
(*    <<x>> is the value x.                                                *)
(*  - A Python dict keyed by data is a sequence of <<key, value>> pairs     *)
(*    with distinct keys, in insertion order.  A dict with a fixed set of  *)
(*    keys (a CWL document, parameter, requirement or step) is a record    *)
(*    whose fields are Optional: an absent key is None.                    *)
(*  - A function that can raise has a companion predicate <name>_raises.   *)
(*  - A value of type Any is a record tagged by its Python type in the     *)
(*    field "kind".                                                        *)
(***************************************************************************)
EXTENDS Integers, Sequences, FiniteSets, TLC

VARIABLES
    \* ---- type round trips (ir/types.py, the parsers' type functions)
    ts,          \* the TypeSpec under conversion
    cwl_type,    \* Optional: TypeSpec.to_cwl_type(ts)
    cwl_parsed,  \* Optional: CWLParser._parse_cwl_type(cwl_type)
    wdl_type,    \* Optional: TypeSpec.to_wdl_string(ts)
    wdl_parsed,  \* Optional: WDLParser._parse_type(wdl_type)
    \* ---- conversions (parsers, writers, converter); each result is None
    \* until the call is made, then Ok(value) or Raised(exception)
    src,         \* Optional: a Language-A source text
    ir,          \* the IR element: built by the caller, or WDLParser.parse_string(src)
    converted,   \* WDLToCWLConverter.convert_string(src)
    cwl_out,     \* a Language-B document: CWLWriter.write(element), or given by the caller
    cwl_back,    \* CWLParser.parse_dict of the document of cwl_out
    wdl_out,     \* WDLWriter.write(element)
    wdl_back,    \* WDLParser.parse_string(wdl_out)
    \* ---- dependency graph and validation (ir/workflow.py, utils/)
    wf,               \* the Workflow under analysis
    analyzer,         \* Optional: WorkflowGraphAnalyzer(wf)
    execution_order,  \* Optional: the result of analyzer.get_execution_order()
    validation,       \* Optional: the result of WorkflowValidator().validate_workflow(wf)
    conversion_valid, \* Optional: the result of WDLToCWLConverter().validate_conversion(wf)
    task_validation,  \* Optional: the result of WorkflowValidator().validate_task(a task of wf)
    \* ---- convert_directory (converters/wdl_to_cwl.py)
    wdl_tree,    \* the entries under wdl_dir
    cwl_tree,    \* the entries under cwl_dir
    recursive,   \* the argument recursive
    wdl_files,   \* Optional: the list wdl_dir.glob(pattern) gave
    file_index,  \* the position of the loop in wdl_files
    log,         \* the records the logger has received
    outcome,     \* Optional: how the call ended
    \* ---- resource requirements (ir/runtime.py)
    task_runtime,  \* the Runtime
    cwl_requirements, \* Optional: the result of task_runtime.to_cwl_requirements()
    \* ---- convert_file and the command convert (converters/wdl_to_cwl.py, cli.py)
    fs,          \* the entries of the working directory
    wdl_path,    \* the argument wdl_path / wdl_file
    cwl_path,    \* Optional: the argument cwl_path / cwl_file
    file_result, \* Optional: how converter.convert_file(wdl_path, cwl_path) ended
    cli_exit,    \* Optional: how the command convert wdl_file [cwl_file] ended
    \* ---- BatchProcessor.process_parallel (utils/batch_processor.py)
    batch_items,       \* the argument items
    max_workers,       \* the argument max_workers
    progress_callback, \* Optional: the kind of the argument progress_callback
    futures,           \* the state of the future of each item
    batch_results,     \* the list results
    completed_count,   \* the counter completed
    progress_calls,    \* the calls progress_callback has received, in order
    batch_return,      \* Optional: how process_parallel ended
    \* ---- WorkflowGraphAnalyzer.get_parallel_groups (utils/graph.py)
    remaining,         \* Optional: the set remaining of the loop
    parallel_so_far,   \* the list groups of the loop
    parallel_groups    \* Optional: the result of analyzer.get_parallel_groups()

typeVars == <<ts, cwl_type, cwl_parsed, wdl_type, wdl_parsed>>
convVars == <<src, ir, converted, cwl_out, cwl_back, wdl_out, wdl_back>>
graphVars == <<wf, analyzer, execution_order, validation, conversion_valid, task_validation>>
dirVars == <<wdl_tree, cwl_tree, recursive, wdl_files, file_index, log, outcome>>
runtimeVars == <<task_runtime, cwl_requirements>>
fileVars == <<fs, wdl_path, cwl_path, file_result, cli_exit>>
batchVars == <<batch_items, max_workers, progress_callback, futures, batch_results,
               completed_count, progress_calls, batch_return>>
groupVars == <<remaining, parallel_so_far, parallel_groups>>
vars == <<typeVars, convVars, graphVars, dirVars, runtimeVars, fileVars, batchVars, groupVars>>

(***************************************************************************)
(* Bounds of the model.                                                    *)
(***************************************************************************)
MaxTypeDepth == 2
MaxWorkflowCalls == 1
MaxGraphCalls == 2
MaxAmount == 11
MaxItems == 3

(***************************************************************************)
(* Optional values and strings.                                            *)
(***************************************************************************)
None == <<>>
Some(x) == <<x>>

Last(s) == s[Len(s)]

\* s[i:j] of Python for 1-based i and inclusive j; empty when j < i.
Slice(s, i, j) == IF j < i THEN <<>> ELSE SubSeq(s, i, j)

\* str.startswith
StartsWith(s, p) == Len(s) >= Len(p) /\ SubSeq(s, 1, Len(p)) = p

\* str.endswith
EndsWith(s, p) ==
    Len(s) >= Len(p) /\ SubSeq(s, Len(s) - Len(p) + 1, Len(s)) = p

\* the literal p occurs in s at position i
MatchAt(s, i, p) ==
    i >= 1 /\ i + Len(p) - 1 <= Len(s) /\ SubSeq(s, i, i + Len(p) - 1) = p

\* p in s
Contains(s, p) == \E i \in 1..(Len(s) + 1) : MatchAt(s, i, p)

\* str.replace(old, new): every non-overlapping occurrence, left to right
RECURSIVE Replace(_, _, _)
Replace(s, old, new) ==
    IF s = <<>> \/ old = <<>> THEN s
    ELSE IF MatchAt(s, 1, old)
    THEN new \o Replace(Slice(s, Len(old) + 1, Len(s)), old, new)
    ELSE <<s[1]>> \o Replace(Tail(s), old, new)

\* the characters \s and \w match, and the digits
Whitespace == {" ", "\n", "\t"}
Digits == {"0", "1", "2", "3", "4", "5", "6", "7", "8", "9"}
WordChars ==
    Digits \cup {"_"} \cup
    {"a","b","c","d","e","f","g","h","i","j","k","l","m",
     "n","o","p","q","r","s","t","u","v","w","x","y","z"} \cup
    {"A","B","C","D","E","F","G","H","I","J","K","L","M",
     "N","O","P","Q","R","S","T","U","V","W","X","Y","Z"}

\* the first index >= i of s whose character is not in cls (Len(s) + 1 if none):
\* where a greedy run of cls that starts at i stops
RECURSIVE SkipWhile(_, _, _)
SkipWhile(s, i, cls) ==
    IF i <= Len(s) /\ s[i] \in cls THEN SkipWhile(s, i + 1, cls) ELSE i

\* the first index >= i of s whose character is c (Len(s) + 1 if none)
RECURSIVE IndexOf(_, _, _)
IndexOf(s, i, c) ==
    IF i <= Len(s) /\ s[i] # c THEN IndexOf(s, i + 1, c) ELSE i

\* the least i in from..to with P(i), or 0: where a regular-expression search
\* that tries every start position in turn first succeeds
FirstIndex(from, to, P(_)) ==
    IF \E i \in from..to : P(i)
    THEN CHOOSE i \in from..to : P(i) /\ \A h \in from..(i - 1) : ~P(h)
    ELSE 0

\* str.strip()
RECURSIVE RStrip(_)
RStrip(s) ==
    IF s # <<>> /\ Last(s) \in Whitespace THEN RStrip(Slice(s, 1, Len(s) - 1)) ELSE s

Strip(s) == RStrip(Slice(s, SkipWhile(s, 1, Whitespace), Len(s)))

\* str.split(sep) for a one-character separator
RECURSIVE SplitOn(_, _)
SplitOn(s, sep) ==
    LET i == IndexOf(s, 1, sep)
    IN IF i > Len(s) THEN <<s>>
       ELSE <<Slice(s, 1, i - 1)>> \o SplitOn(Slice(s, i + 1, Len(s)), sep)

\* str.split(): the maximal runs of non-whitespace characters
RECURSIVE SplitWhitespace(_)
SplitWhitespace(s) ==
    LET i == SkipWhile(s, 1, Whitespace)
        j == SkipWhile(s, i, {s[k] : k \in 1..Len(s)} \ Whitespace)
    IN IF i > Len(s) THEN <<>>
       ELSE <<Slice(s, i, j - 1)>> \o SplitWhitespace(Slice(s, j, Len(s)))

\* sep.join(parts)
RECURSIVE Join(_, _)
Join(parts, sep) ==
    IF parts = <<>> THEN <<>>
    ELSE IF Len(parts) = 1 THEN parts[1]
    ELSE parts[1] \o sep \o Join(Tail(parts), sep)

\* the concatenation of a sequence of sequences
RECURSIVE Concat(_)
Concat(ss) == IF ss = <<>> THEN <<>> ELSE ss[1] \o Concat(Tail(ss))

\* int(s) and str(n) for the decimal numerals without sign
DigitValue(c) ==
    CASE c = "0" -> 0 [] c = "1" -> 1 [] c = "2" -> 2 [] c = "3" -> 3 [] c = "4" -> 4
      [] c = "5" -> 5 [] c = "6" -> 6 [] c = "7" -> 7 [] c = "8" -> 8 [] c = "9" -> 9

DigitChar(d) == <<"0", "1", "2", "3", "4", "5", "6", "7", "8", "9">>[d + 1]

IsNumeral(s) == s # <<>> /\ \A i \in 1..Len(s) : s[i] \in Digits

RECURSIVE ParseInt(_)
ParseInt(s) ==
    IF s = <<>> THEN 0
    ELSE 10 * ParseInt(Slice(s, 1, Len(s) - 1)) + DigitValue(Last(s))

RECURSIVE IntToStr(_)
IntToStr(n) ==
    IF n < 10 THEN <<DigitChar(n)>> ELSE IntToStr(n \div 10) \o <<DigitChar(n % 10)>>

(***************************************************************************)
(* Python dicts keyed by data: sequences of <<key, value>> pairs.          *)
(***************************************************************************)
DictKeys(d) == {d[i][1] : i \in 1..Len(d)}

DictHas(d, k) == \E i \in 1..Len(d) : d[i][1] = k

\* d[k] for a key of d
DictGet(d, k) == d[CHOOSE i \in 1..Len(d) : d[i][1] = k][2]

\* d[k] = v: an existing key keeps its place
DictSet(d, k, v) ==
    IF DictHas(d, k)
    THEN [i \in 1..Len(d) |-> IF d[i][1] = k THEN <<k, v>> ELSE d[i]]
    ELSE Append(d, <<k, v>>)

\* d.update(e)
RECURSIVE DictUpdate(_, _)
DictUpdate(d, e) ==
    IF e = <<>> THEN d
    ELSE DictUpdate(DictSet(d, e[1][1], e[1][2]), Tail(e))

\* list(d.values())
DictValues(d) == [i \in 1..Len(d) |-> d[i][2]]

\* the dict built by d[k] = v for each pair of ps in turn
RECURSIVE DictFromPairs(_)
DictFromPairs(ps) ==
    IF ps = <<>> THEN <<>>
    ELSE DictSet(DictFromPairs(Slice(ps, 1, Len(ps) - 1)), Last(ps)[1], Last(ps)[2])

\* [f(x) for x in s]
Map(s, f(_)) == [i \in 1..Len(s) |-> f(s[i])]

\* the elements of a sequence
Range(s) == {s[i] : i \in 1..Len(s)}

\* PurePath.suffix of a file name: from its last dot, unless the dot begins or
\* ends the name
PathSuffix(name) ==
    LET dots == {i \in 1..Len(name) : name[i] = "."}
    IN IF dots = {} THEN <<>>
       ELSE LET i == CHOOSE d \in dots : \A e \in dots : e <= d
            IN IF 1 < i /\ i < Len(name) THEN Slice(name, i, Len(name)) ELSE <<>>

\* PurePath.stem of a file name
NameStem(name) == Slice(name, 1, Len(name) - Len(PathSuffix(name)))

\* Path(s).stem: the stem of the last component of the path
PathStem(s) == NameStem(Last(SplitOn(s, "/")))

(***************************************************************************)
(* The result of a call: the value it returned or the exception it raised. *)
(***************************************************************************)
Ok(v) == [status |-> "ok", value |-> v]
Raised(exc) == [status |-> "raised", exc |-> exc]
IsOk(r) == r # None /\ r[1].status = "ok"
IsRaised(r) == r # None /\ r[1].status = "raised"

(***************************************************************************)
(* Regular expressions, matched the way Python's re matches them: among    *)
(* the ways a pattern can match, re takes the leftmost start and then the  *)
(* way backtracking finds first (a greedy repetition tries its longest     *)
(* stretch first, a lazy one its shortest, an optional group is tried      *)
(* before it is skipped, the alternatives of | in their order).  The       *)
(* model follows every way of matching at once, as threads ranked in that  *)
(* order of preference: of two threads that have reached the same          *)
(* position of the same pattern the less preferred one is dropped, because *)
(* whatever completes it completes the preferred one.  A pattern is a      *)
(* sequence of nodes; a match is the record [ok, start, end, groups],      *)
(* where end is the position after the match and groups[n] is None for a   *)
(* group that took no part in it.                                          *)
(***************************************************************************)
Chars(cs) == [neg |-> FALSE, chars |-> cs]
NotChars(cs) == [neg |-> TRUE, chars |-> cs]
InClass(c, cls) == (c \in cls.chars) # cls.neg

Space == Chars(Whitespace)        \* \s
Word == Chars(WordChars)          \* \w
Digit == Chars(Digits)            \* \d
AnyChar == NotChars({})           \* . under re.DOTALL
NotNewline == NotChars({"\n"})    \* .

Unbounded == -1

Lit(s) == [t |-> "lit", s |-> s]
Rep(cls, min, max, lazy) ==
    [t |-> "rep", cls |-> cls, min |-> min, max |-> max, lazy |-> lazy]
One(cls) == Rep(cls, 1, 1, FALSE)                  \* x
Maybe(cls) == Rep(cls, 0, 1, FALSE)                \* x?
Star(cls) == Rep(cls, 0, Unbounded, FALSE)         \* x*
Plus(cls) == Rep(cls, 1, Unbounded, FALSE)         \* x+
LazyPlus(cls) == Rep(cls, 1, Unbounded, TRUE)      \* x+?
\* a group: n is its number, 0 for (?:...)
Grp(n, p, min, max) == [t |-> "grp", n |-> n, p |-> p, min |-> min, max |-> max]
Capture(n, p) == Grp(n, p, 1, 1)                   \* (...)
Alt(ps) == [t |-> "alt", ps |-> ps]                \* ...|...
Bol == [t |-> "bol"]                               \* ^
Eol == [t |-> "eol"]                               \* $

NoMatch == [ok |-> FALSE]

\* the position after the longest run of cls that starts at i and stops
\* before stop
RunEnd(s, i, cls, stop) ==
    CHOOSE j \in i..stop :
        /\ j = stop \/ j > Len(s) \/ ~InClass(s[j], cls)
        /\ \A k \in i..(j - 1) : InClass(s[k], cls)

\* A thread: where the match started, the position it has reached, the groups
\* it has captured (each None or <<first position, position after the last>>),
\* and its rank among the threads (0 is the preferred one).
Thread(rank, start, pos, groups) ==
    [rank |-> rank, start |-> start, pos |-> pos, groups |-> groups]

\* A thread a step has made: key is <<rank of the thread it comes from, order
\* of preference among the threads made from that one>>.
Made(key, start, pos, groups) ==
    [key |-> key, start |-> start, pos |-> pos, groups |-> groups]

Before(k1, k2) == k1[1] < k2[1] \/ (k1[1] = k2[1] /\ k1[2] < k2[2])

\* the preferred thread of each position, ranked from 0
Ranked(made) ==
    LET kept == {t \in made : \A u \in made : u.pos = t.pos => ~Before(u.key, t.key)}
    IN {Thread(Cardinality({u \in kept : Before(u.key, t.key)}), t.start, t.pos, t.groups) :
          t \in kept}

\* Whether the nodes k.. of a pattern can begin at position pos, judged by the
\* character there alone.  A thread that cannot begin what follows it matches
\* nothing, so dropping it changes no match.
RECURSIVE CanStart(_, _, _, _)
CanStart(nodes, k, s, pos) ==
    IF k > Len(nodes) THEN TRUE
    ELSE LET h == nodes[k]
         IN CASE h.t = "lit" -> MatchAt(s, pos, h.s)
              [] h.t = "rep" ->
                   \/ pos <= Len(s) /\ InClass(s[pos], h.cls)
                   \/ h.min = 0 /\ CanStart(nodes, k + 1, s, pos)
              [] h.t = "grp" ->
                   \/ CanStart(h.p \o SubSeq(nodes, k + 1, Len(nodes)), 1, s, pos)
                   \/ h.min = 0 /\ CanStart(nodes, k + 1, s, pos)
              [] h.t = "alt" ->
                   \E j \in 1..Len(h.ps) :
                       CanStart(h.ps[j] \o SubSeq(nodes, k + 1, Len(nodes)), 1, s, pos)
              [] h.t = "bol" -> pos = 1
              [] h.t = "eol" -> pos >= Len(s)

RECURSIVE Run(_, _, _, _, _)
RECURSIVE Expand(_, _, _, _)

\* the threads that come out of the nodes k.. of a pattern for the threads
\* that go in; after is what the match has to go on with behind the pattern
Run(nodes, k, s, threads, after) ==
    IF k > Len(nodes) \/ threads = {} THEN threads
    ELSE Run(nodes, k + 1, s,
             Ranked({m \in UNION {Expand(nodes[k], s, t,
                                         SubSeq(nodes, k + 1, Len(nodes)) \o after) :
                                    t \in threads} :
                       CanStart(nodes \o after, k + 1, s, m.pos)}),
             after)

\* the threads one node makes of the thread t
Expand(h, s, t, after) ==
    CASE h.t = "lit" ->
           IF MatchAt(s, t.pos, h.s)
           THEN {Made(<<t.rank, 0>>, t.start, t.pos + Len(h.s), t.groups)}
           ELSE {}
      [] h.t = "rep" ->
           LET longest == RunEnd(s, t.pos, h.cls,
                                 IF h.max = Unbounded THEN Len(s) + 1
                                 ELSE t.pos + h.max) - t.pos
           IN {Made(<<t.rank, IF h.lazy THEN l ELSE longest - l>>,
                    t.start, t.pos + l, t.groups) : l \in h.min..longest}
      [] h.t = "grp" ->
           \* the threads that take the group, then the one that skips it; a
           \* thread that has taken a repeated group takes it again or leaves,
           \* unless the group matched nothing
           LET once == Run(h.p, 1, s, {Thread(0, t.start, t.pos, t.groups)},
                           IF h.max = Unbounded THEN <<[h EXCEPT !.min = 0]>> \o after
                           ELSE after)
               closed == {IF h.n = 0 THEN u
                          ELSE [u EXCEPT !.groups[h.n] = <<t.pos, u.pos>>] :
                            u \in once}
               taken == IF h.max = Unbounded
                        THEN Ranked(UNION {IF u.pos > t.pos
                                           THEN {Made(<<u.rank, v.key[2]>>, v.start, v.pos,
                                                      v.groups) :
                                                   v \in Expand([h EXCEPT !.min = 0], s,
                                                                 [u EXCEPT !.rank = 0], after)}
                                           ELSE {Made(<<u.rank, 0>>, u.start, u.pos, u.groups)} :
                                             u \in closed})
                        ELSE closed
           IN {Made(<<t.rank, u.rank>>, u.start, u.pos, u.groups) : u \in taken}
              \cup (IF h.min = 0
                    THEN {Made(<<t.rank, Cardinality(taken)>>, t.start, t.pos, t.groups)}
                    ELSE {})
      [] h.t = "alt" ->
           UNION {{Made(<<t.rank, k * (Len(s) + 2) + u.rank>>, u.start, u.pos, u.groups) :
                     u \in Run(h.ps[k], 1, s, {Thread(0, t.start, t.pos, t.groups)}, after)} :
                    k \in 1..Len(h.ps)}
      [] h.t = "bol" ->
           IF t.pos = 1 THEN {Made(<<t.rank, 0>>, t.start, t.pos, t.groups)} ELSE {}
      [] h.t = "eol" ->
           IF t.pos = Len(s) + 1 \/ (t.pos = Len(s) /\ s[t.pos] = "\n")
           THEN {Made(<<t.rank, 0>>, t.start, t.pos, t.groups)}
           ELSE {}

\* the groups of a pattern with n groups before it is matched
NoGroups(n) == [k \in 1..n |-> None]

\* the match of the preferred thread, or NoMatch
MatchOf(s, threads) ==
    IF threads = {} THEN NoMatch
    ELSE LET t == CHOOSE u \in threads : u.rank = 0
         IN [ok |-> TRUE, start |-> t.start, end |-> t.pos,
             groups |-> [n \in DOMAIN t.groups |->
                           IF t.groups[n] = None THEN None
                           ELSE Some(Slice(s, t.groups[n][1], t.groups[n][2] - 1))]]

\* the match of pattern, which has n groups, that starts at position i
MatchAtPosition(pattern, n, s, i) ==
    MatchOf(s, Run(pattern, 1, s, {Thread(0, i, i, NoGroups(n))}, <<>>))

\* re.match(pattern, s)
MatchHere(pattern, n, s) == MatchAtPosition(pattern, n, s, 1)

\* the leftmost of the matches, or NoMatch
Leftmost(matches) ==
    IF matches = {} THEN NoMatch
    ELSE CHOOSE m \in matches : \A other \in matches : m.start <= other.start

\* re.search(pattern, s) from position from
Search(pattern, n, s, from) ==
    Leftmost({m \in {MatchAtPosition(pattern, n, s, i) : i \in from..(Len(s) + 1)} : m.ok})

\* re.finditer(pattern, s): the matches from left to right, none overlapping
\* (no pattern of the program matches the empty string)
RECURSIVE FindAll(_, _, _, _)
RECURSIVE FindAllAfter(_, _, _, _)
FindAll(pattern, n, s, from) == FindAllAfter(pattern, n, s, Search(pattern, n, s, from))

FindAllAfter(pattern, n, s, m) ==
    IF ~m.ok THEN <<>>
    ELSE <<m>> \o FindAll(pattern, n, s, IF m.end > m.start THEN m.end ELSE m.end + 1)

(***************************************************************************)
(* ir/types.py                                                             *)
(***************************************************************************)
Primitives == {"String", "Int", "Float", "Boolean", "File", "Directory"}

\* DataType.<member>.value, as text
DataTypeValue(b) ==
    CASE b = "String"    -> <<"S","t","r","i","n","g">>
      [] b = "Int"       -> <<"I","n","t">>
      [] b = "Float"     -> <<"F","l","o","a","t">>
      [] b = "Boolean"   -> <<"B","o","o","l","e","a","n">>
      [] b = "File"      -> <<"F","i","l","e">>
      [] b = "Directory" -> <<"D","i","r","e","c","t","o","r","y">>
      [] b = "Array"     -> <<"A","r","r","a","y">>
      [] b = "Map"       -> <<"M","a","p">>
      [] b = "Object"    -> <<"O","b","j","e","c","t">>
      [] b = "Optional"  -> <<"O","p","t","i","o","n","a","l">>

TypeSpec(b, item, opt) ==
    [base_type |-> b, item_type |-> item, key_type |-> None,
     value_type |-> None, optional |-> opt]

RECURSIVE to_wdl_string(_)
to_wdl_string(t) ==
    IF t.base_type = "Array"
    THEN <<"A","r","r","a","y","[">> \o to_wdl_string(t.item_type[1]) \o <<"]">>
    ELSE IF t.base_type = "Map"
    THEN <<"M","a","p","[">> \o to_wdl_string(t.key_type[1]) \o <<",">>
           \o to_wdl_string(t.value_type[1]) \o <<"]">>
    ELSE IF t.optional
    THEN DataTypeValue(t.base_type) \o <<"?">>
    ELSE DataTypeValue(t.base_type)

cwl_mapping(b) ==
    CASE b = "String"    -> "string"
      [] b = "Int"       -> "int"
      [] b = "Float"     -> "float"
      [] b = "Boolean"   -> "boolean"
      [] b = "File"      -> "File"
      [] b = "Directory" -> "Directory"

\* A CWL type is a str, a list of str or a dict.
CwlStr(s) == [kind |-> "str", s |-> s]
CwlList(l) == [kind |-> "list", l |-> l]
\* a list whose members are CWL types themselves
CwlListOf(members) == [kind |-> "listof", members |-> members]
CwlDict(type, items) == [kind |-> "dict", type |-> type, items |-> items]
\* the value of an absent "type" key
CwlNone == [kind |-> "none"]

RECURSIVE to_cwl_type(_)
to_cwl_type(t) ==
    IF t.base_type = "Array"
    THEN CwlDict(Some("array"), Some(to_cwl_type(t.item_type[1])))
    ELSE IF t.base_type \in Primitives
    THEN IF t.optional
         THEN CwlList(<<"null", cwl_mapping(t.base_type)>>)
         ELSE CwlStr(cwl_mapping(t.base_type))
    ELSE CwlStr("Any")

(***************************************************************************)
(* Values of type Any (Input.default, WorkflowCall.inputs values).         *)
(***************************************************************************)
PyStr(s) == [kind |-> "str", s |-> s]
PyInt(n) == [kind |-> "int", n |-> n]

\* str(v)
PyToStr(v) == IF v.kind = "str" THEN v.s ELSE IntToStr(v.n)

\* Python truth of an Optional[str] and of an Optional[int]
TruthyStr(o) == o # None /\ o[1] # <<>>
TruthyInt(o) == o # None /\ o[1] # 0

(***************************************************************************)
(* ir/io.py                                                                *)
(***************************************************************************)
Input(name, type_spec, description, default, optional) ==
    [name |-> name, type_spec |-> type_spec, description |-> description,
     default |-> default, optional |-> optional]

Output(name, type_spec, description, expression) ==
    [name |-> name, type_spec |-> type_spec, description |-> description,
     expression |-> expression]

\* A CWL parameter: the dict {id, type, doc?, default?, outputBinding?: {glob}}.
\* An absent key is None; "type" is None when the dict has no such key.
CwlParam(id, type, doc, default, glob) ==
    [id |-> id, type |-> type, doc |-> doc, default |-> default,
     outputBinding |-> glob]

Input_to_cwl(inp) ==
    CwlParam(inp.name, Some(to_cwl_type(inp.type_spec)),
             IF TruthyStr(inp.description) THEN inp.description ELSE None,
             inp.default,
             None)

Input_to_wdl(inp) ==
    IF inp.default # None
    THEN to_wdl_string(inp.type_spec) \o <<" ">> \o inp.name \o <<" ", "=", " ">>
           \o PyToStr(inp.default[1])
    ELSE to_wdl_string(inp.type_spec) \o <<" ">> \o inp.name

Output_to_cwl(out) ==
    CwlParam(out.name, Some(to_cwl_type(out.type_spec)),
             IF TruthyStr(out.description) THEN out.description ELSE None,
             None,
             IF TruthyStr(out.expression) THEN out.expression ELSE None)

Output_to_wdl(out) ==
    IF TruthyStr(out.expression)
    THEN to_wdl_string(out.type_spec) \o <<" ">> \o out.name \o <<" ", "=", " ">>
           \o out.expression[1]
    ELSE to_wdl_string(out.type_spec) \o <<" ">> \o out.name

(***************************************************************************)
(* ir/runtime.py                                                           *)
(***************************************************************************)
Runtime(cpu, memory, disk, docker, maxRetries, preemptible, custom_attributes) ==
    [cpu |-> cpu, memory |-> memory, disk |-> disk, docker |-> docker,
     maxRetries |-> maxRetries, continueOnReturnCode |-> None, gpu |-> None,
     zones |-> None, preemptible |-> preemptible,
     custom_attributes |-> custom_attributes]

EmptyRuntime == Runtime(None, None, None, None, None, None, <<>>)

\* float(s) accepts <digits> and <digits>.<digits> (of the numerals of the model)
IsDecimal(s) ==
    LET p == SplitOn(s, ".")
    IN \/ IsNumeral(s)
       \/ Len(p) = 2 /\ IsNumeral(p[1]) /\ IsNumeral(p[2])

RECURSIVE Pow10(_)
Pow10(k) == IF k = 0 THEN 1 ELSE 10 * Pow10(k - 1)

\* int(float(s) * factor) for a decimal s
ScaleDecimal(s, factor) ==
    LET p == SplitOn(s, ".")
    IN IF Len(p) = 1 THEN ParseInt(s) * factor
       ELSE ((ParseInt(p[1]) * Pow10(Len(p[2])) + ParseInt(p[2])) * factor)
              \div Pow10(Len(p[2]))

\* Runtime._parse_memory_to_mb raises ValueError
parse_memory_to_mb_raises(memory_str) ==
    LET s == Strip(memory_str)
    IN IF EndsWith(s, <<"G">>) THEN ~IsDecimal(Slice(s, 1, Len(s) - 1))
       ELSE IF EndsWith(s, <<"M">>) THEN ~IsNumeral(Slice(s, 1, Len(s) - 1))
       ELSE ~IsNumeral(s)

parse_memory_to_mb(memory_str) ==
    LET s == Strip(memory_str)
    IN IF EndsWith(s, <<"G">>) THEN ScaleDecimal(Slice(s, 1, Len(s) - 1), 1024)
       ELSE IF EndsWith(s, <<"M">>) THEN ParseInt(Slice(s, 1, Len(s) - 1))
       ELSE ParseInt(s)

\* Runtime._parse_disk_to_mb raises ValueError
parse_disk_to_mb_raises(disk_str) ==
    LET s == Strip(disk_str)
    IN IF EndsWith(s, <<"G">>) THEN ~IsDecimal(Slice(s, 1, Len(s) - 1))
       ELSE IF EndsWith(s, <<"T">>) THEN ~IsDecimal(Slice(s, 1, Len(s) - 1))
       ELSE IF EndsWith(s, <<"M">>) THEN ~IsNumeral(Slice(s, 1, Len(s) - 1))
       ELSE ~IsNumeral(s)

parse_disk_to_mb(disk_str) ==
    LET s == Strip(disk_str)
    IN IF EndsWith(s, <<"G">>) THEN ScaleDecimal(Slice(s, 1, Len(s) - 1), 1024)
       ELSE IF EndsWith(s, <<"T">>)
       THEN ScaleDecimal(Slice(s, 1, Len(s) - 1), 1024 * 1024)
       ELSE IF EndsWith(s, <<"M">>) THEN ParseInt(Slice(s, 1, Len(s) - 1))
       ELSE ParseInt(s)

\* A CWL requirement: the dict {class, dockerPull?, coresMin?, ramMin?, outdirMin?}
CwlRequirement(class, dockerPull, coresMin, ramMin, outdirMin) ==
    [class |-> class, dockerPull |-> dockerPull, coresMin |-> coresMin,
     ramMin |-> ramMin, outdirMin |-> outdirMin]

\* Runtime.to_cwl_requirements raises ValueError
to_cwl_requirements_raises(rt) ==
    \/ TruthyStr(rt.memory) /\ parse_memory_to_mb_raises(rt.memory[1])
    \/ TruthyStr(rt.disk) /\ parse_disk_to_mb_raises(rt.disk[1])

to_cwl_requirements(rt) ==
    LET docker_req ==
            IF TruthyStr(rt.docker)
            THEN <<CwlRequirement("DockerRequirement", rt.docker, None, None, None)>>
            ELSE <<>>
        resource_req ==
            CwlRequirement("ResourceRequirement", None,
                IF TruthyInt(rt.cpu) THEN rt.cpu ELSE None,
                IF TruthyStr(rt.memory) THEN Some(parse_memory_to_mb(rt.memory[1]))
                ELSE None,
                IF TruthyStr(rt.disk) THEN Some(parse_disk_to_mb(rt.disk[1]))
                ELSE None)
    IN IF resource_req.coresMin # None \/ resource_req.ramMin # None
          \/ resource_req.outdirMin # None
       THEN docker_req \o <<resource_req>>
       ELSE docker_req

\* Runtime.to_wdl_runtime: the values are str or int
to_wdl_runtime(rt) ==
    DictUpdate(
        (IF TruthyInt(rt.cpu) THEN <<<<<<"c","p","u">>, PyInt(rt.cpu[1])>>>> ELSE <<>>)
        \o (IF TruthyStr(rt.memory) THEN <<<<<<"m","e","m","o","r","y">>, PyStr(rt.memory[1])>>>> ELSE <<>>)
        \o (IF TruthyStr(rt.disk)
            THEN <<<<<<"d","i","s","k","s">>, PyStr(<<"l","o","c","a","l","-","d","i","s","k"," ">> \o rt.disk[1] \o <<" ","H","D","D">>)>>>>
            ELSE <<>>)
        \o (IF TruthyStr(rt.docker) THEN <<<<<<"d","o","c","k","e","r">>, PyStr(rt.docker[1])>>>> ELSE <<>>)
        \o (IF rt.maxRetries # None
            THEN <<<<<<"m","a","x","R","e","t","r","i","e","s">>, PyInt(rt.maxRetries[1])>>>> ELSE <<>>)
        \o (IF rt.preemptible # None
            THEN <<<<<<"p","r","e","e","m","p","t","i","b","l","e">>, PyInt(rt.preemptible[1])>>>> ELSE <<>>),
        rt.custom_attributes)

(***************************************************************************)
(* ir/task.py                                                              *)
(***************************************************************************)
Task(name, inputs, outputs, command, runtime, description) ==
    [cls |-> "Task", name |-> name, inputs |-> inputs, outputs |-> outputs,
     command |-> command, runtime |-> runtime, description |-> description]

\* r'[~$]\{(\w+)\}'
var_pattern == <<One(Chars({"~", "$"})), Lit(<<"{">>), Capture(1, <<Plus(Word)>>), Lit(<<"}">>)>>

\* one token of Task._parse_command_to_cwl
command_token_to_cwl(token) ==
    IF Contains(token, <<"~","{">>) \/ Contains(token, <<"$","{">>)
    THEN LET var_match == Search(var_pattern, 1, token, 1)
         IN IF var_match.ok
            THEN Replace(token,
                         Slice(token, var_match.start, var_match.end - 1),
                         <<"$","(","i","n","p","u","t","s",".">> \o var_match.groups[1][1] \o <<")">>)
            ELSE token
    ELSE token

parse_command_to_cwl(task) ==
    Map(SplitWhitespace(Strip(task.command)), command_token_to_cwl)

\* A CWL document: the dict of a CommandLineTool, of a Workflow or of a $graph
\* document.  An absent key is None.
CwlDoc(cwlVersion, class, id, doc, baseCommand, inputs, outputs, requirements, arguments, steps, graph) ==
    [cwlVersion |-> cwlVersion, class |-> class, id |-> id, doc |-> doc,
     baseCommand |-> baseCommand, inputs |-> inputs, outputs |-> outputs,
     requirements |-> requirements, arguments |-> arguments, steps |-> steps,
     graph |-> graph]

\* Task.to_cwl_tool raises ValueError
to_cwl_tool_raises(task) ==
    task.runtime # None /\ to_cwl_requirements_raises(task.runtime[1])

to_cwl_tool(task) ==
    CwlDoc(None, Some("CommandLineTool"), Some(task.name),
           IF TruthyStr(task.description) THEN task.description ELSE None,
           Some(<<>>),
           Some(DictFromPairs(Map(task.inputs, LAMBDA inp : <<inp.name, Input_to_cwl(inp)>>))),
           Some(DictFromPairs(Map(task.outputs, LAMBDA out : <<out.name, Output_to_cwl(out)>>))),
           IF task.runtime # None THEN Some(to_cwl_requirements(task.runtime[1])) ELSE None,
           Some(parse_command_to_cwl(task)),
           None, None)

\* the runtime lines of Task.to_wdl_task
wdl_runtime_line(kv) ==
    IF kv[2].kind = "str"
    THEN <<" "," "," "," ">> \o kv[1] \o <<":"," ","\"">> \o kv[2].s \o <<"\"">>
    ELSE <<" "," "," "," ">> \o kv[1] \o <<":"," ">> \o PyToStr(kv[2])

to_wdl_task(task) ==
    Join(<<<<"t","a","s","k"," ">> \o task.name \o <<" ","{">>>>
         \o (IF TruthyStr(task.description)
             THEN <<<<" "," ","m","e","t","a"," ","{">>,
                    <<" "," "," "," ","d","e","s","c","r","i","p","t","i","o","n",":"," ","\"">> \o task.description[1] \o <<"\"">>,
                    <<" "," ","}">>>>
             ELSE <<>>)
         \o (IF task.inputs # <<>>
             THEN <<<<" "," ","i","n","p","u","t"," ","{">>>>
                  \o Map(task.inputs, LAMBDA inp : <<" "," "," "," ">> \o Input_to_wdl(inp))
                  \o <<<<" "," ","}">>>>
             ELSE <<>>)
         \o <<<<" "," ","c","o","m","m","a","n","d"," ","<","<","<">>>>
         \o Map(SplitOn(Strip(task.command), "\n"), LAMBDA cmd_line : <<" "," "," "," ">> \o cmd_line)
         \o <<<<" "," ",">",">",">">>>>
         \o (IF task.runtime # None
             THEN <<<<" "," ","r","u","n","t","i","m","e"," ","{">>>>
                  \o Map(to_wdl_runtime(task.runtime[1]), wdl_runtime_line)
                  \o <<<<" "," ","}">>>>
             ELSE <<>>)
         \o (IF task.outputs # <<>>
             THEN <<<<" "," ","o","u","t","p","u","t"," ","{">>>>
                  \o Map(task.outputs, LAMBDA out : <<" "," "," "," ">> \o Output_to_wdl(out))
                  \o <<<<" "," ","}">>>>
             ELSE <<>>)
         \o <<<<"}">>>>,
         <<"\n">>)

(***************************************************************************)
(* ir/workflow.py                                                          *)
(***************************************************************************)
WorkflowCall(call_id, task_name, inputs, scatter, conditional) ==
    [call_id |-> call_id, task_name |-> task_name, inputs |-> inputs,
     scatter |-> scatter, conditional |-> conditional]

Workflow(name, inputs, outputs, tasks, calls, imports, description) ==
    [cls |-> "Workflow", name |-> name, type |-> "workflow", inputs |-> inputs,
     outputs |-> outputs, tasks |-> tasks, calls |-> calls, imports |-> imports,
     description |-> description]

\* Workflow(name=name)
NewWorkflow(name) == Workflow(name, <<>>, <<>>, <<>>, <<>>, <<>>, None)

add_task(workflow, task) ==
    [workflow EXCEPT !.tasks = DictSet(workflow.tasks, task.name, task)]

add_call(workflow, call) ==
    [workflow EXCEPT !.calls = Append(workflow.calls, call)]

CallIds(workflow) == {workflow.calls[i].call_id : i \in 1..Len(workflow.calls)}

\* a variant of dependency_edges that takes the first of any number of parts
\* for a call: the claim about the edges must tell the two apart
dependency_edges_of_any_parts(workflow, call, input_value) ==
    IF input_value.kind = "str" /\ Contains(input_value.s, <<".">>)
    THEN LET parts == SplitOn(input_value.s, ".")
         IN IF parts[1] \in CallIds(workflow)
            THEN {<<parts[1], call.call_id>>}
            ELSE {}
    ELSE {}

\* the edges get_dependency_graph adds for one input value of one call
dependency_edges(workflow, call, input_value) ==
    IF input_value.kind = "str" /\ Contains(input_value.s, <<".">>)
    THEN LET parts == SplitOn(input_value.s, ".")
         IN IF Len(parts) = 2 /\ parts[1] \in CallIds(workflow)
            THEN {<<parts[1], call.call_id>>}
            ELSE {}
    ELSE {}

\* a networkx DiGraph: its nodes and its edges
get_dependency_graph(workflow) ==
    [nodes |-> CallIds(workflow),
     edges |-> UNION {UNION {dependency_edges(workflow, workflow.calls[i],
                                              workflow.calls[i].inputs[j][2]) :
                               j \in 1..Len(workflow.calls[i].inputs)} :
                        i \in 1..Len(workflow.calls)}]

\* A step of a CWL workflow: the dict {run, in, out, scatter?, scatterMethod?}.
\* "run" is a str ([kind |-> "str", s |-> ...]) or an embedded tool
\* ([kind |-> "dict", d |-> ...]).
CwlStep(run, in, out, scatter, scatterMethod) ==
    [run |-> run, in |-> in, out |-> out, scatter |-> scatter,
     scatterMethod |-> scatterMethod]

\* the step of one call in Workflow.to_cwl_workflow
to_cwl_step(workflow, call) ==
    CwlStep(Some(PyStr(<<"#">> \o call.task_name)),
            Some(Map(call.inputs,
                     LAMBDA kv : IF kv[2].kind = "str" /\ Contains(kv[2].s, <<".">>)
                                 THEN <<kv[1], PyStr(Replace(kv[2].s, <<".">>, <<"/">>))>>
                                 ELSE kv)),
            Some(IF DictHas(workflow.tasks, call.task_name)
                 THEN Map(DictGet(workflow.tasks, call.task_name).outputs,
                          LAMBDA out : out.name)
                 ELSE <<>>),
            IF TruthyStr(call.scatter) THEN call.scatter ELSE None,
            IF TruthyStr(call.scatter) THEN Some("dotproduct") ELSE None)

to_cwl_workflow(workflow) ==
    CwlDoc(None, Some("Workflow"), Some(workflow.name),
           IF TruthyStr(workflow.description) THEN workflow.description ELSE None,
           None,
           Some(DictFromPairs(Map(workflow.inputs,
                                  LAMBDA inp : <<inp.name, Input_to_cwl(inp)>>))),
           Some(DictFromPairs(Map(workflow.outputs,
                                  LAMBDA out : <<out.name, Output_to_cwl(out)>>))),
           IF workflow.tasks # <<>>
           THEN Some(<<CwlRequirement("SubworkflowFeatureRequirement",
                                      None, None, None, None)>>)
           ELSE None,
           None,
           Some(DictFromPairs(Map(workflow.calls,
                                  LAMBDA call : <<call.call_id,
                                                  to_cwl_step(workflow, call)>>))),
           None)

\* the lines of one call in Workflow.to_wdl_workflow
to_wdl_call_lines(call) ==
    LET scattered == TruthyStr(call.scatter)
        guarded == TruthyStr(call.conditional)
        indent0 == IF scattered THEN <<" "," "," "," ">> ELSE <<" "," ">>
        indent == IF guarded THEN indent0 \o <<" "," ">> ELSE indent0
    IN <<<<>>>>
       \o (IF scattered THEN <<<<" "," ","s","c","a","t","t","e","r"," ","(">> \o call.scatter[1] \o <<")"," ","{">>>> ELSE <<>>)
       \o (IF guarded THEN <<indent0 \o <<"i","f"," ","(">> \o call.conditional[1] \o <<")"," ","{">>>>
           ELSE <<>>)
       \o (IF call.inputs # <<>>
           THEN <<indent \o <<"c","a","l","l"," ">> \o call.task_name \o <<" ","a","s"," ">> \o call.call_id \o <<" ","{">>,
                  indent \o <<" "," ","i","n","p","u","t",":">>>>
                \o Map(call.inputs,
                       LAMBDA kv : indent \o <<" "," "," "," ">> \o kv[1] \o <<" ","="," ">> \o PyToStr(kv[2]))
                \o <<indent \o <<"}">>>>
           ELSE <<indent \o <<"c","a","l","l"," ">> \o call.task_name \o <<" ","a","s"," ">> \o call.call_id>>)
       \o (IF guarded THEN <<Slice(indent, 1, Len(indent) - 2) \o <<"}">>>> ELSE <<>>)
       \o (IF scattered THEN <<<<" "," ","}">>>> ELSE <<>>)

to_wdl_workflow(workflow) ==
    Join(Map(workflow.imports, LAMBDA imp : <<"i","m","p","o","r","t"," ","\"">> \o imp \o <<"\"">>)
         \o (IF workflow.imports # <<>> THEN <<<<>>>> ELSE <<>>)
         \o <<<<"w","o","r","k","f","l","o","w"," ">> \o workflow.name \o <<" ","{">>>>
         \o (IF TruthyStr(workflow.description)
             THEN <<<<" "," ","m","e","t","a"," ","{">>,
                    <<" "," "," "," ","d","e","s","c","r","i","p","t","i","o","n",":"," ","\"">> \o workflow.description[1] \o <<"\"">>,
                    <<" "," ","}">>>>
             ELSE <<>>)
         \o (IF workflow.inputs # <<>>
             THEN <<<<" "," ","i","n","p","u","t"," ","{">>>>
                  \o Map(workflow.inputs, LAMBDA inp : <<" "," "," "," ">> \o Input_to_wdl(inp))
                  \o <<<<" "," ","}">>>>
             ELSE <<>>)
         \o Concat(Map(workflow.calls, to_wdl_call_lines))
         \o (IF workflow.outputs # <<>>
             THEN <<<<>>, <<" "," ","o","u","t","p","u","t"," ","{">>>>
                  \o Map(workflow.outputs, LAMBDA out : <<" "," "," "," ">> \o Output_to_wdl(out))
                  \o <<<<" "," ","}">>>>
             ELSE <<>>)
         \o <<<<"}">>>>,
         <<"\n">>)

(***************************************************************************)
(* parsers/wdl_parser.py                                                   *)
(***************************************************************************)
wdl_type_mapping(s) ==
    IF s = DataTypeValue("String") THEN "String"
    ELSE IF s = DataTypeValue("Int") THEN "Int"
    ELSE IF s = DataTypeValue("Float") THEN "Float"
    ELSE IF s = DataTypeValue("Boolean") THEN "Boolean"
    ELSE IF s = DataTypeValue("File") THEN "File"
    ELSE "String"

RECURSIVE WDL_parse_type(_)
WDL_parse_type(type_str) ==
    LET optional == EndsWith(type_str, <<"?">>)
        s == IF optional THEN Slice(type_str, 1, Len(type_str) - 1) ELSE type_str
    IN IF StartsWith(s, <<"A","r","r","a","y","[">>)
       THEN TypeSpec("Array", Some(WDL_parse_type(Slice(s, 7, Len(s) - 1))), optional)
       ELSE TypeSpec(wdl_type_mapping(s), None, optional)

\* r'<kw>\s+(\w+)\s*\{([^}]+(?:\{[^}]*\}[^}]*)*)\}'
block_pattern(kw) ==
    <<Lit(kw), Plus(Space), Capture(1, <<Plus(Word)>>), Star(Space), Lit(<<"{">>),
      Capture(2, <<Plus(NotChars({"}"})),
                   Grp(0, <<Lit(<<"{">>), Star(NotChars({"}"})), Lit(<<"}">>),
                            Star(NotChars({"}"}))>>, 0, Unbounded)>>),
      Lit(<<"}">>)>>

task_pattern == block_pattern(<<"t","a","s","k">>)
workflow_pattern == block_pattern(<<"w","o","r","k","f","l","o","w">>)

\* r'<kw>\s*\{([^}]+)\}' for input, runtime and output
section_pattern(kw) ==
    <<Lit(kw), Star(Space), Lit(<<"{">>), Capture(1, <<Plus(NotChars({"}"}))>>), Lit(<<"}">>)>>

\* r'command\s*<<<(.+?)>>>' with re.DOTALL
heredoc_command_pattern ==
    <<Lit(<<"c","o","m","m","a","n","d">>), Star(Space), Lit(<<"<","<","<">>), Capture(1, <<LazyPlus(AnyChar)>>),
      Lit(<<">",">",">">>)>>

\* r'command\s*\{(.+?)\}' with re.DOTALL
brace_command_pattern ==
    <<Lit(<<"c","o","m","m","a","n","d">>), Star(Space), Lit(<<"{">>), Capture(1, <<LazyPlus(AnyChar)>>),
      Lit(<<"}">>)>>

\* r'(\w+(?:\[[^\]]+\])?(?:\?)?)\s+(\w+)(?:\s*=\s*(.+?))?(?:\n|$)'
declaration_pattern ==
    <<Capture(1, <<Plus(Word),
                   Grp(0, <<Lit(<<"[">>), Plus(NotChars({"]"})), Lit(<<"]">>)>>, 0, 1),
                   Grp(0, <<Lit(<<"?">>)>>, 0, 1)>>),
      Plus(Space), Capture(2, <<Plus(Word)>>),
      Grp(0, <<Star(Space), Lit(<<"=">>), Star(Space),
               Capture(3, <<LazyPlus(NotNewline)>>)>>, 0, 1),
      Grp(0, <<Alt(<<<<Lit(<<"\n">>)>>, <<Eol>>>>)>>, 1, 1)>>

\* r'(\w+)\s*:\s*"?([^"\n]+)"?'
runtime_pattern ==
    <<Capture(1, <<Plus(Word)>>), Star(Space), Lit(<<":">>), Star(Space),
      Maybe(Chars({"\""})), Capture(2, <<Plus(NotChars({"\"", "\n"}))>>),
      Maybe(Chars({"\""}))>>

\* r'(\d+\s*\w+)'
disk_pattern == <<Capture(1, <<Plus(Digit), Star(Space), Plus(Word)>>)>>

\* r'input\s*:(.+)' with re.DOTALL
call_input_section_pattern ==
    <<Lit(<<"i","n","p","u","t">>), Star(Space), Lit(<<":">>), Capture(1, <<Plus(AnyChar)>>)>>

\* r'(\w+)\s*=\s*([^,\n]+)'
call_input_pattern ==
    <<Capture(1, <<Plus(Word)>>), Star(Space), Lit(<<"=">>), Star(Space),
      Capture(2, <<Plus(NotChars({",", "\n"}))>>)>>

\* r'call\s+(\w+)(?:\s+as\s+(\w+))?\s*(?:\{([^}]+)\})?'
call_pattern ==
    <<Lit(<<"c","a","l","l">>), Plus(Space), Capture(1, <<Plus(Word)>>),
      Grp(0, <<Plus(Space), Lit(<<"a","s">>), Plus(Space), Capture(2, <<Plus(Word)>>)>>, 0, 1),
      Star(Space),
      Grp(0, <<Lit(<<"{">>), Capture(3, <<Plus(NotChars({"}"}))>>), Lit(<<"}">>)>>, 0, 1)>>

\* r'import\s+"([^"]+)"'
import_pattern ==
    <<Lit(<<"i","m","p","o","r","t">>), Plus(Space), Lit(<<"\"">>), Capture(1, <<Plus(NotChars({"\""}))>>),
      Lit(<<"\"">>)>>

\* default.strip() if default else None
StripOrNone(o) == IF TruthyStr(o) THEN Some(Strip(o[1])) ELSE None

WDL_parse_declarations(text) ==
    Map(FindAll(declaration_pattern, 3, text, 1),
        LAMBDA m : Input(m.groups[2][1], WDL_parse_type(m.groups[1][1]), None,
                         IF TruthyStr(m.groups[3])
                         THEN Some(PyStr(Strip(m.groups[3][1]))) ELSE None,
                         WDL_parse_type(m.groups[1][1]).optional))

WDL_parse_output_declarations(text) ==
    Map(FindAll(declaration_pattern, 3, text, 1),
        LAMBDA m : Output(m.groups[2][1], WDL_parse_type(m.groups[1][1]), None,
                          StripOrNone(m.groups[3])))

\* the assignments of WDLParser._parse_runtime for one key: value pair
parse_runtime_attr(runtime, key, value, disk_match) ==
    IF key = <<"c","p","u">> THEN [runtime EXCEPT !.cpu = Some(ParseInt(value))]
    ELSE IF key = <<"m","e","m","o","r","y">> THEN [runtime EXCEPT !.memory = Some(value)]
    ELSE IF key = <<"d","o","c","k","e","r">> THEN [runtime EXCEPT !.docker = Some(value)]
    ELSE IF key = <<"d","i","s","k","s">>
    THEN IF disk_match.ok
         THEN [runtime EXCEPT !.disk = Some(Replace(disk_match.groups[1][1], <<" ">>, <<>>))]
         ELSE runtime
    ELSE IF key = <<"p","r","e","e","m","p","t","i","b","l","e">>
    THEN [runtime EXCEPT !.preemptible = Some(ParseInt(value))]
    ELSE IF key = <<"m","a","x","R","e","t","r","i","e","s">>
    THEN [runtime EXCEPT !.maxRetries = Some(ParseInt(value))]
    ELSE [runtime EXCEPT
            !.custom_attributes = DictSet(runtime.custom_attributes, key, PyStr(value))]

RECURSIVE parse_runtime_attrs(_, _)
parse_runtime_attrs(runtime, ms) ==
    IF ms = <<>> THEN runtime
    ELSE parse_runtime_attrs(
             parse_runtime_attr(runtime, ms[1].groups[1][1], Strip(ms[1].groups[2][1]),
                                Search(disk_pattern, 1, Strip(ms[1].groups[2][1]), 1)),
             Tail(ms))

\* WDLParser._parse_runtime raises ValueError: int(value) of a text that is
\* not a numeral
WDL_parse_runtime_raises(text) ==
    LET ms == FindAll(runtime_pattern, 2, text, 1)
    IN \E j \in 1..Len(ms) :
          /\ ms[j].groups[1][1] \in {<<"c","p","u">>, <<"p","r","e","e","m","p","t","i","b","l","e">>, <<"m","a","x","R","e","t","r","i","e","s">>}
          /\ ~IsNumeral(Strip(ms[j].groups[2][1]))

WDL_parse_runtime(text) ==
    parse_runtime_attrs(EmptyRuntime, FindAll(runtime_pattern, 2, text, 1))

WDL_parse_call_inputs(text) ==
    IF Strip(text) = <<>> THEN <<>>
    ELSE LET input_match == Search(call_input_section_pattern, 1, text, 1)
         IN DictFromPairs(
                Map(FindAll(call_input_pattern, 2,
                            IF input_match.ok THEN input_match.groups[1][1] ELSE text, 1),
                    LAMBDA m : <<m.groups[1][1], PyStr(Strip(m.groups[2][1]))>>))

\* the text of a section of a task or workflow body, or None
section_text(body, kw) ==
    LET m == Search(section_pattern(kw), 1, body, 1)
    IN IF m.ok THEN m.groups[1] ELSE None

\* the text of the command section of a task body, or None
command_text(body) ==
    LET heredoc == Search(heredoc_command_pattern, 1, body, 1)
        brace == Search(brace_command_pattern, 1, body, 1)
    IN IF heredoc.ok THEN heredoc.groups[1]
       ELSE IF brace.ok THEN brace.groups[1]
       ELSE None

\* WDLParser._parse_task raises
WDL_parse_task_raises(name, body) ==
    /\ section_text(body, <<"r","u","n","t","i","m","e">>) # None
    /\ WDL_parse_runtime_raises(section_text(body, <<"r","u","n","t","i","m","e">>)[1])

WDL_parse_task_sections(name, inputs_text, command, runtime_text, outputs_text) ==
    Task(name,
         IF inputs_text # None THEN WDL_parse_declarations(inputs_text[1]) ELSE <<>>,
         IF outputs_text # None THEN WDL_parse_output_declarations(outputs_text[1])
         ELSE <<>>,
         IF command # None THEN Strip(command[1]) ELSE <<>>,
         IF runtime_text # None THEN Some(WDL_parse_runtime(runtime_text[1])) ELSE None,
         None)

WDL_parse_task(name, body) ==
    WDL_parse_task_sections(name, section_text(body, <<"i","n","p","u","t">>), command_text(body),
                            section_text(body, <<"r","u","n","t","i","m","e">>), section_text(body, <<"o","u","t","p","u","t">>))

\* the WorkflowCall WDLParser._parse_workflow builds from one call statement
parse_call(m) ==
    WorkflowCall(IF TruthyStr(m.groups[2]) THEN m.groups[2][1] ELSE m.groups[1][1],
                 m.groups[1][1],
                 WDL_parse_call_inputs(IF TruthyStr(m.groups[3]) THEN m.groups[3][1]
                                       ELSE <<>>),
                 None, None)

WDL_parse_workflow_sections(name, inputs_text, body, outputs_text, tasks) ==
    Workflow(name,
             IF inputs_text # None THEN WDL_parse_declarations(inputs_text[1]) ELSE <<>>,
             IF outputs_text # None THEN WDL_parse_output_declarations(outputs_text[1])
             ELSE <<>>,
             tasks,
             Map(FindAll(call_pattern, 3, body, 1), parse_call),
             <<>>,
             None)

WDL_parse_workflow(name, body, tasks) ==
    WDL_parse_workflow_sections(name, section_text(body, <<"i","n","p","u","t">>), body,
                                section_text(body, <<"o","u","t","p","u","t">>), tasks)

\* the tasks dict WDLParser.parse_string builds
parse_tasks(content) ==
    DictFromPairs(Map(FindAll(task_pattern, 2, content, 1),
                      LAMBDA m : <<m.groups[1][1],
                                   WDL_parse_task(m.groups[1][1], m.groups[2][1])>>))

\* WDLParser.parse_string raises
WDL_parse_string_raises(content) ==
    LET ms == FindAll(task_pattern, 2, content, 1)
    IN \E j \in 1..Len(ms) : WDL_parse_task_raises(ms[j].groups[1][1], ms[j].groups[2][1])

\* WDLParser.parse_string(content, source_name)
WDL_parse_string_from(workflow_match, content, source_name) ==
    IF workflow_match.ok
    THEN [WDL_parse_workflow(workflow_match.groups[1][1], workflow_match.groups[2][1],
                             parse_tasks(content))
            EXCEPT !.imports = Map(FindAll(import_pattern, 1, content, 1),
                                   LAMBDA m : m.groups[1][1])]
    ELSE [NewWorkflow(PathStem(source_name)) EXCEPT !.tasks = parse_tasks(content)]

WDL_parse_string(content, source_name) ==
    WDL_parse_string_from(Search(workflow_pattern, 2, content, 1), content, source_name)

(***************************************************************************)
(* parsers/cwl_parser.py                                                   *)
(***************************************************************************)
CWL_parse_simple_type(type_str) ==
    LET base == CASE type_str = "string"    -> "String"
                  [] type_str = "int"       -> "Int"
                  [] type_str = "long"      -> "Int"
                  [] type_str = "float"     -> "Float"
                  [] type_str = "double"    -> "Float"
                  [] type_str = "boolean"   -> "Boolean"
                  [] type_str = "File"      -> "File"
                  [] type_str = "Directory" -> "Directory"
                  [] OTHER                  -> "String"
    IN TypeSpec(base, None, FALSE)

\* _parse_cwl_type raises: type_mapping.get(type_str, ...) of
\* _parse_simple_type hashes the only non-null member of a list, and a dict
\* or a list cannot be hashed (TypeError)
RECURSIVE CWL_parse_cwl_type_raises(_)
CWL_parse_cwl_type_raises(c) ==
    IF c.kind = "listof"
    THEN LET non_null_types == SelectSeq(c.members, LAMBDA x : x # CwlStr("null"))
         IN Len(non_null_types) = 1 /\ non_null_types[1].kind \in {"dict", "list", "listof"}
    ELSE IF c.kind = "dict" /\ c.type = Some("array")
    THEN CWL_parse_cwl_type_raises(IF c.items = None THEN CwlStr("string") ELSE c.items[1])
    ELSE FALSE

RECURSIVE CWL_parse_cwl_type(_)
CWL_parse_cwl_type(c) ==
    IF c.kind = "str" THEN CWL_parse_simple_type(c.s)
    ELSE IF c.kind = "listof"
    THEN LET non_null_types == SelectSeq(c.members, LAMBDA x : x # CwlStr("null"))
             optional == \E i \in 1..Len(c.members) : c.members[i] = CwlStr("null")
         IN IF Len(non_null_types) = 1
            THEN [CWL_parse_simple_type(IF non_null_types[1].kind = "str"
                                        THEN non_null_types[1].s ELSE "")
                     EXCEPT !.optional = optional]
            ELSE TypeSpec("String", None, optional)
    ELSE IF c.kind = "list"
    THEN LET non_null_types == SelectSeq(c.l, LAMBDA x : x # "null")
             optional == \E i \in 1..Len(c.l) : c.l[i] = "null"
         IN IF Len(non_null_types) = 1
            THEN [CWL_parse_simple_type(non_null_types[1]) EXCEPT !.optional = optional]
            ELSE TypeSpec("String", None, optional)
    ELSE IF c.kind = "dict"
    THEN IF c.type = Some("array")
         THEN TypeSpec("Array",
                       Some(CWL_parse_cwl_type(IF c.items = None THEN CwlStr("string")
                                               ELSE c.items[1])),
                       FALSE)
         ELSE TypeSpec("String", None, FALSE)
    ELSE TypeSpec("String", None, FALSE)

\* 'null' in str(cwl_type), for the type tokens of the model: only the token
\* null contains it
RECURSIVE NullInStr(_)
NullInStr(c) ==
    IF c.kind = "str" THEN c.s = "null"
    ELSE IF c.kind = "list" THEN \E i \in 1..Len(c.l) : c.l[i] = "null"
    ELSE IF c.kind = "dict"
    THEN \/ c.type = Some("null")
         \/ c.items # None /\ NullInStr(c.items[1])
    ELSE FALSE

\* d.get(key, default) for an Optional field
GetOr(field, default) == IF field = None THEN default ELSE field[1]

\* a value of an inputs or outputs mapping is a parameter dict
IsParamDict(v) == "id" \in DOMAIN v

\* the parameter dict a value of an inputs or outputs mapping is read as when it
\* is a dict; the other values are types
AsParamDict(v) ==
    IF IsParamDict(v) THEN v
    ELSE CwlParam(None, IF v.type = None THEN None ELSE Some(CwlStr(v.type[1])),
                  None, None, None)

IsDict(v) == IsParamDict(v) \/ v.kind = "dict"

CWL_parse_input(input_id, input_def) ==
    Input(input_id,
          CWL_parse_cwl_type(GetOr(input_def.type, CwlNone)),
          Some(GetOr(input_def.doc, <<>>)),
          input_def.default,
          NullInStr(GetOr(input_def.type, CwlNone)))

CWL_parse_output(output_id, output_def) ==
    Output(output_id,
           CWL_parse_cwl_type(GetOr(output_def.type, CwlNone)),
           Some(GetOr(output_def.doc, <<>>)),
           output_def.outputBinding)

\* the loop over inputs.items() of _parse_command_line_tool and _parse_workflow
CWL_parse_inputs(inputs) ==
    Map(inputs,
        LAMBDA kv : IF IsDict(kv[2]) THEN CWL_parse_input(kv[1], AsParamDict(kv[2]))
                    ELSE Input(kv[1], CWL_parse_cwl_type(kv[2]), None, None, FALSE))

\* the loop over outputs.items()
CWL_parse_outputs(outputs) ==
    Map(outputs,
        LAMBDA kv : IF IsDict(kv[2]) THEN CWL_parse_output(kv[1], AsParamDict(kv[2]))
                    ELSE Output(kv[1], CWL_parse_cwl_type(kv[2]), None, None))

\* the assignments of CWLParser._parse_requirements for one requirement
parse_requirement(runtime, req) ==
    IF req.class = "DockerRequirement"
    THEN [runtime EXCEPT !.docker = Some(GetOr(req.dockerPull, <<>>))]
    ELSE IF req.class = "ResourceRequirement"
    THEN [runtime EXCEPT
            !.cpu = IF req.coresMin # None THEN req.coresMin ELSE @,
            !.memory = IF req.ramMin # None
                       THEN Some(IntToStr(req.ramMin[1]) \o <<"M">>) ELSE @,
            !.disk = IF req.outdirMin # None
                     THEN Some(IntToStr(req.outdirMin[1]) \o <<"M">>) ELSE @]
    ELSE runtime

RECURSIVE parse_requirements_from(_, _)
parse_requirements_from(runtime, requirements) ==
    IF requirements = <<>> THEN runtime
    ELSE parse_requirements_from(parse_requirement(runtime, requirements[1]),
                                 Tail(requirements))

CWL_parse_requirements(requirements) == parse_requirements_from(EmptyRuntime, requirements)

\* baseCommand is a list in the documents of the model
CWL_parse_command_line_tool(tool_doc) ==
    Task(GetOr(tool_doc.id, <<"u","n","n","a","m","e","d","_","t","o","o","l">>),
         CWL_parse_inputs(GetOr(tool_doc.inputs, <<>>)),
         CWL_parse_outputs(GetOr(tool_doc.outputs, <<>>)),
         Join(GetOr(tool_doc.baseCommand, <<>>) \o GetOr(tool_doc.arguments, <<>>), <<" ">>),
         Some(CWL_parse_requirements(GetOr(tool_doc.requirements, <<>>))),
         Some(GetOr(tool_doc.doc, <<>>)))

\* str.lstrip('#')
RECURSIVE LStripHash(_)
LStripHash(s) == IF s # <<>> /\ s[1] = "#" THEN LStripHash(Tail(s)) ELSE s

CWL_parse_step_inputs(step_inputs) ==
    Map(step_inputs,
        LAMBDA kv : IF kv[2].kind = "str"
                    THEN <<kv[1], PyStr(Replace(kv[2].s, <<"/">>, <<".">>))>>
                    ELSE <<kv[1], PyStr(PyToStr(kv[2]))>>)

\* the step has an embedded tool
EmbeddedRun(step_def) == step_def.run # None /\ step_def.run[1].kind = "dict"

\* the WorkflowCall CWLParser._parse_workflow builds for one step
parse_step_call(step_id, step_def) ==
    WorkflowCall(step_id,
                 IF EmbeddedRun(step_def) THEN step_id
                 ELSE LStripHash(GetOr(step_def.run, PyStr(step_id)).s),
                 CWL_parse_step_inputs(GetOr(step_def.in, <<>>)),
                 step_def.scatter,
                 None)

\* the steps loop of CWLParser._parse_workflow
RECURSIVE parse_steps(_, _)
parse_steps(workflow, steps) ==
    IF steps = <<>> THEN workflow
    ELSE LET step_id == steps[1][1]
             step_def == steps[1][2]
             with_task ==
                 IF EmbeddedRun(step_def)
                 THEN add_task(workflow,
                               [CWL_parse_command_line_tool(step_def.run[1].d)
                                  EXCEPT !.name = step_id])
                 ELSE workflow
         IN parse_steps(add_call(with_task, parse_step_call(step_id, step_def)),
                        Tail(steps))

\* CWLParser._parse_workflow raises NameError: the module imports Workflow, Task,
\* Input, Output and Runtime from ..ir but not WorkflowCall, so the name
\* WorkflowCall is unbound when the first step reaches the call constructor
CWL_parse_workflow_raises(wf_doc) == GetOr(wf_doc.steps, <<>>) # <<>>

CWL_parse_workflow(wf_doc) ==
    parse_steps([NewWorkflow(GetOr(wf_doc.id, <<"u","n","n","a","m","e","d","_","w","o","r","k","f","l","o","w">>))
                   EXCEPT !.description = Some(GetOr(wf_doc.doc, <<>>)),
                          !.inputs = CWL_parse_inputs(GetOr(wf_doc.inputs, <<>>)),
                          !.outputs = CWL_parse_outputs(GetOr(wf_doc.outputs, <<>>))],
                GetOr(wf_doc.steps, <<>>))

\* CWLParser.parse_dict raises: ValueError for an unknown class, NameError from
\* _parse_workflow
CWL_parse_dict_raises(cwl_doc) ==
    LET cwl_class == GetOr(cwl_doc.class, "")
    IN IF cwl_class = "CommandLineTool" THEN FALSE
       ELSE IF cwl_class = "Workflow" THEN CWL_parse_workflow_raises(cwl_doc)
       ELSE TRUE

\* the exception CWLParser.parse_dict raises
CWL_parse_dict_exception(cwl_doc) ==
    IF GetOr(cwl_doc.class, "") = "Workflow" THEN "NameError" ELSE "ValueError"

CWL_parse_dict(cwl_doc) ==
    IF GetOr(cwl_doc.class, "") = "CommandLineTool"
    THEN CWL_parse_command_line_tool(cwl_doc)
    ELSE CWL_parse_workflow(cwl_doc)

(***************************************************************************)
(* writers/cwl_writer.py.  write() dumps the dict of _element_to_cwl as     *)
(* YAML; the model keeps the dict, which is what the YAML text spells out  *)
(* and what loading the text gives back.                                  *)
(***************************************************************************)
\* a variant of _workflow_to_cwl that leaves the tools out of the $graph
workflow_to_cwl_without_tools(workflow) ==
    LET wf_dict == to_cwl_workflow(workflow)
    IN IF workflow.tasks # <<>>
       THEN CwlDoc(None, None, None, None, None, None, None, None, None, None,
                   Some(<<[wf_dict EXCEPT !.id = Some(<<"m","a","i","n">>)]>>))
       ELSE wf_dict

\* CWLWriter._workflow_to_cwl
workflow_to_cwl(workflow) ==
    LET wf_dict == to_cwl_workflow(workflow)
    IN IF workflow.tasks # <<>>
       THEN CwlDoc(None, None, None, None, None, None, None, None, None, None,
                   Some(<<[wf_dict EXCEPT !.id = Some(<<"m","a","i","n">>)]>>
                        \o Map(DictValues(workflow.tasks),
                               LAMBDA task : [to_cwl_tool(task)
                                                EXCEPT !.id = Some(task.name)])))
       ELSE wf_dict

\* CWLWriter._element_to_cwl raises ValueError (from Runtime._parse_memory_to_mb
\* or Runtime._parse_disk_to_mb)
element_to_cwl_raises(element) ==
    IF element.cls = "Task" THEN to_cwl_tool_raises(element)
    ELSE \E i \in 1..Len(element.tasks) : to_cwl_tool_raises(element.tasks[i][2])

\* CWLWriter._element_to_cwl
element_to_cwl(element) ==
    [(IF element.cls = "Task" THEN to_cwl_tool(element) ELSE workflow_to_cwl(element))
       EXCEPT !.cwlVersion = Some(<<"v","1",".","2">>)]

(***************************************************************************)
(* writers/wdl_writer.py                                                   *)
(***************************************************************************)
\* WDLWriter._workflow_to_wdl_lines
workflow_to_wdl_lines(workflow) ==
    Map(workflow.imports, LAMBDA imp : <<"i","m","p","o","r","t"," ","\"">> \o imp \o <<"\"">>)
    \o (IF workflow.imports # <<>> THEN <<<<>>>> ELSE <<>>)
    \o Concat(Map(DictValues(workflow.tasks), LAMBDA task : <<to_wdl_task(task), <<>>>>))
    \o <<to_wdl_workflow(workflow)>>

\* WDLWriter.write, with the default version "1.0"
WDLWriter_write(element) ==
    Join(<<<<"v","e","r","s","i","o","n"," ","1",".","0">>, <<>>>>
         \o (IF element.cls = "Task" THEN <<to_wdl_task(element)>>
             ELSE workflow_to_wdl_lines(element)),
         <<"\n">>)

(***************************************************************************)
(* converters/wdl_to_cwl.py                                                *)
(***************************************************************************)
\* WDLToCWLConverter.convert_string raises
convert_string_raises(wdl_content) ==
    \/ WDL_parse_string_raises(wdl_content)
    \/ element_to_cwl_raises(WDL_parse_string(wdl_content, <<"s","t","r","i","n","g">>))

\* WDLToCWLConverter.convert_string: the document of the text it returns
convert_string(wdl_content) == element_to_cwl(WDL_parse_string(wdl_content, <<"s","t","r","i","n","g">>))

\* a check that looks at the name of the element alone
validate_conversion_by_name(element) == element.name # <<>>

\* WDLToCWLConverter.validate_conversion
validate_conversion(element) ==
    IF element.cls = "Workflow"
    THEN /\ element.name # <<>>
         /\ \A i \in 1..Len(element.calls) : DictHas(element.tasks, element.calls[i].task_name)
    ELSE /\ element.name # <<>>
         /\ element.command # <<>>

(***************************************************************************)
(* utils/graph.py.  A networkx DiGraph is the record [nodes, edges].       *)
(* networkx fixes neither the order topological_sort chooses among the     *)
(* topological orders, nor the order in which simple_cycles reports the    *)
(* cycles, nor the node a reported cycle starts with: the model allows     *)
(* every choice.                                                           *)
(***************************************************************************)
\* the orderings of a finite set
Perms(S) ==
    {p \in [1..Cardinality(S) -> S] : \A i, j \in 1..Cardinality(S) : p[i] = p[j] => i = j}

\* WorkflowGraphAnalyzer(workflow)
WorkflowGraphAnalyzer(workflow) ==
    [workflow |-> workflow, graph |-> get_dependency_graph(workflow)]

\* the lists nx.topological_sort(graph) can give; none when the graph has a
\* cycle
TopologicalOrders(graph) ==
    {p \in Perms(graph.nodes) :
        \A e \in graph.edges :
            \E i, j \in 1..Len(p) : i < j /\ p[i] = e[1] /\ p[j] = e[2]}

\* WorkflowGraphAnalyzer.get_execution_order: nx.topological_sort raises
\* NetworkXUnfeasible for a graph with a cycle; NetworkXUnfeasible derives from
\* NetworkXAlgorithmError and NetworkXException, not from NetworkXError, so the
\* except clause does not catch it
get_execution_order(graph) ==
    IF TopologicalOrders(graph) = {} THEN {Raised("NetworkXUnfeasible")}
    ELSE {Ok(p) : p \in TopologicalOrders(graph)}

\* the elementary cycles of a graph, each from every node of it
SimpleCycles(graph) ==
    UNION {{c \in Perms(S) :
              \A i \in 1..Len(c) : <<c[i], c[(i % Len(c)) + 1]>> \in graph.edges} :
             S \in (SUBSET graph.nodes) \ {{}}}

Rotations(c) == {[i \in 1..Len(c) |-> c[((i + k - 1) % Len(c)) + 1]] : k \in 0..(Len(c) - 1)}

\* WorkflowGraphAnalyzer.find_cycles: the lists nx.simple_cycles(graph) can
\* give, each cycle once
find_cycles(graph) ==
    {[i \in 1..Len(order) |-> pick[order[i]]] :
        order \in Perms({Rotations(c) : c \in SimpleCycles(graph)}),
        pick \in {f \in [{Rotations(c) : c \in SimpleCycles(graph)} -> SimpleCycles(graph)] :
                    \A R \in DOMAIN f : f[R] \in R}}

(***************************************************************************)
(* utils/validator.py                                                      *)
(***************************************************************************)
ValidationError(level, message, location) ==
    [level |-> level, message |-> message, location |-> location]

\* a result that is valid only when there is no finding of any level
validation_result_without_findings(errors) ==
    [valid |-> errors = <<>>, errors |-> errors]

\* the pair (not has_errors, self.errors) the validate methods return
validation_result(errors) ==
    [valid |-> \A i \in 1..Len(errors) : errors[i].level # "ERROR", errors |-> errors]

\* WorkflowValidator._validate_call for a call whose task the workflow has
validate_resolved_call(call, task) ==
    Concat(Map(task.inputs,
               LAMBDA inp :
                   IF ~inp.optional /\ ~DictHas(call.inputs, inp.name)
                   THEN <<ValidationError("ERROR",
                              <<"C","a","l","l"," ","'">> \o call.call_id
                                \o <<"'"," ","m","i","s","s","i","n","g"," ","r","e","q","u","i","r","e","d"," ","i","n","p","u","t"," ","'">> \o inp.name \o <<"'">>,
                              <<"c","a","l","l",".">> \o call.call_id)>>
                   ELSE <<>>))
    \o Concat(Map(call.inputs,
                  LAMBDA kv :
                      IF \A i \in 1..Len(task.inputs) : task.inputs[i].name # kv[1]
                      THEN <<ValidationError("WARNING",
                                 <<"C","a","l","l"," ","'">> \o call.call_id
                                   \o <<"'"," ","p","r","o","v","i","d","e","s"," ","u","n","k","n","o","w","n"," ","i","n","p","u","t"," ","'">> \o kv[1] \o <<"'">>,
                                 <<"c","a","l","l",".">> \o call.call_id)>>
                      ELSE <<>>))

\* a variant of _validate_call that reports the unknown task as an ERROR
validate_call_unknown_task_as_error(call, workflow) ==
    IF ~DictHas(workflow.tasks, call.task_name)
    THEN <<ValidationError("ERROR",
                           <<"C","a","l","l"," ","'">> \o call.call_id \o <<"'"," ","r","e","f","e","r","e","n","c","e","s"," ","u","n","k","n","o","w","n"," ","t","a","s","k"," ","'">>
                             \o call.task_name \o <<"'">>,
                           <<"c","a","l","l",".">> \o call.call_id)>>
    ELSE validate_resolved_call(call, DictGet(workflow.tasks, call.task_name))

\* WorkflowValidator._validate_call
Validator_validate_call(call, workflow) ==
    IF ~DictHas(workflow.tasks, call.task_name)
    THEN <<ValidationError("WARNING",
                           <<"C","a","l","l"," ","'">> \o call.call_id \o <<"'"," ","r","e","f","e","r","e","n","c","e","s"," ","u","n","k","n","o","w","n"," ","t","a","s","k"," ","'">>
                             \o call.task_name \o <<"'">>,
                           <<"c","a","l","l",".">> \o call.call_id)>>
    ELSE validate_resolved_call(call, DictGet(workflow.tasks, call.task_name))

\* re.match(r'^\d+[MG]?$', memory)
memory_format_pattern == <<Bol, Plus(Digit), Maybe(Chars({"M", "G"})), Eol>>

\* the names the command of a task interpolates that are no inputs of it
unknown_command_vars(task) ==
    {m.groups[1][1] : m \in Range(FindAll(var_pattern, 1, task.command, 1))}
    \ {inp.name : inp \in Range(task.inputs)}

\* WorkflowValidator._validate_task for one order of iteration over the set
\* command_vars
validate_task_in_order(task, unknown_vars) ==
    (IF task.name = <<>> THEN <<ValidationError("ERROR", <<"T","a","s","k"," ","m","i","s","s","i","n","g"," ","n","a","m","e">>, <<>>)>>
     ELSE <<>>)
    \o (IF task.command = <<>>
        THEN <<ValidationError("ERROR", <<"T","a","s","k"," ","'">> \o task.name \o <<"'"," ","m","i","s","s","i","n","g"," ","c","o","m","m","a","n","d">>,
                               <<"t","a","s","k",".">> \o task.name)>>
        ELSE <<>>)
    \o Map(unknown_vars,
           LAMBDA var : ValidationError("ERROR",
                            <<"T","a","s","k"," ","'">> \o task.name \o <<"'"," ","c","o","m","m","a","n","d"," ","r","e","f","e","r","e","n","c","e","s"," ","u","n","k","n","o","w","n"," ","i","n","p","u","t"," ","'">>
                              \o var \o <<"'">>,
                            <<"t","a","s","k",".">> \o task.name \o <<".","c","o","m","m","a","n","d">>))
    \o (IF task.runtime # None /\ TruthyStr(task.runtime[1].memory)
           /\ ~MatchHere(memory_format_pattern, 0, task.runtime[1].memory[1]).ok
        THEN <<ValidationError("WARNING",
                   <<"T","a","s","k"," ","'">> \o task.name \o <<"'"," ","h","a","s"," ","i","n","v","a","l","i","d"," ","m","e","m","o","r","y"," ","f","o","r","m","a","t",":"," ">>
                     \o task.runtime[1].memory[1],
                   <<"t","a","s","k",".">> \o task.name \o <<".","r","u","n","t","i","m","e">>)>>
        ELSE <<>>)

\* WorkflowValidator._validate_task: the lists of findings it can add
Validator_validate_task(task) ==
    {validate_task_in_order(task, unknown_vars) :
        unknown_vars \in Perms(unknown_command_vars(task))}

\* the lists of findings the loop over workflow.tasks.values() can add
RECURSIVE validate_tasks(_)
validate_tasks(tasks) ==
    IF tasks = <<>> THEN {<<>>}
    ELSE {first \o rest : first \in Validator_validate_task(tasks[1]),
                          rest \in validate_tasks(Tail(tasks))}

\* WorkflowValidator.validate_task: the results it can give
validate_task(task) == {validation_result(errors) : errors \in Validator_validate_task(task)}

\* the names call inputs pass on: the str values without a dot
used_inputs(workflow) ==
    UNION {{workflow.calls[i].inputs[j][2].s :
              j \in {k \in 1..Len(workflow.calls[i].inputs) :
                       /\ workflow.calls[i].inputs[k][2].kind = "str"
                       /\ ~Contains(workflow.calls[i].inputs[k][2].s, <<".">>)}} :
             i \in 1..Len(workflow.calls)}

\* WorkflowValidator.validate_workflow, for the list find_cycles gave and the
\* findings the tasks gave: the pair (valid, findings)
validate_workflow_with(workflow, cycles, task_findings) ==
    validation_result(
            (IF workflow.name = <<>>
             THEN <<ValidationError("ERROR", <<"W","o","r","k","f","l","o","w"," ","m","i","s","s","i","n","g"," ","n","a","m","e">>, <<>>)>>
             ELSE <<>>)
            \o Concat(Map(workflow.calls, LAMBDA call : Validator_validate_call(call, workflow)))
            \o task_findings
            \o Map(cycles,
                   LAMBDA cycle : ValidationError("ERROR",
                                      <<"C","i","r","c","u","l","a","r"," ","d","e","p","e","n","d","e","n","c","y"," ","d","e","t","e","c","t","e","d",":"," ">>
                                        \o Join(cycle, <<" ","-",">"," ">>),
                                      <<>>))
            \o Concat(Map(workflow.inputs,
                          LAMBDA inp :
                              IF inp.name \notin used_inputs(workflow)
                              THEN <<ValidationError("WARNING",
                                         <<"I","n","p","u","t"," ","'">> \o inp.name
                                           \o <<"'"," ","i","s"," ","n","o","t"," ","u","s","e","d"," ","b","y"," ","a","n","y"," ","c","a","l","l">>,
                                         <<"w","o","r","k","f","l","o","w",".","i","n","p","u","t","s">>)>>
                              ELSE <<>>))
            \o Concat(Map(workflow.outputs,
                          LAMBDA out :
                              IF /\ TruthyStr(out.expression)
                                 /\ Contains(out.expression[1], <<".">>)
                                 /\ SplitOn(out.expression[1], ".")[1] \notin CallIds(workflow)
                              THEN <<ValidationError("ERROR",
                                         <<"O","u","t","p","u","t"," ","'">> \o out.name
                                           \o <<"'"," ","r","e","f","e","r","e","n","c","e","s"," ","u","n","k","n","o","w","n"," ","c","a","l","l"," ","'">>
                                           \o SplitOn(out.expression[1], ".")[1] \o <<"'">>,
                                         <<"w","o","r","k","f","l","o","w",".","o","u","t","p","u","t","s">>)>>
                              ELSE <<>>)))

\* a validator that resolves the calls against the tasks the workflow had when
\* it was created, which are none
validate_workflow_against_first_tasks(workflow) ==
    {validate_workflow_with([workflow EXCEPT !.tasks = <<>>], cycles, <<>>) :
        cycles \in find_cycles(get_dependency_graph(workflow))}

\* WorkflowValidator.validate_workflow: the results it can give
validate_workflow(workflow) ==
    {validate_workflow_with(workflow, cycles, task_findings) :
        cycles \in find_cycles(get_dependency_graph(workflow)),
        task_findings \in validate_tasks(DictValues(workflow.tasks))}


\* the nodes with an edge into a node of the set
Predecessors(graph, S) == {e[1] : e \in {f \in graph.edges : f[2] \in S}}

\* the nodes from which the set is reached, the set included
RECURSIVE ReachingTo(_, _)
ReachingTo(graph, S) ==
    IF Predecessors(graph, S) \subseteq S THEN S
    ELSE ReachingTo(graph, S \cup Predecessors(graph, S))

\* nx.ancestors(graph, source): the nodes with a path to source, source
\* itself left out
ancestors(graph, source) == ReachingTo(graph, {source}) \ {source}

\* WorkflowGraphAnalyzer.get_dependencies(call_id)
get_dependencies(graph, call_id) ==
    IF call_id \notin graph.nodes THEN {} ELSE ancestors(graph, call_id)

\* the set parallel_group one pass of the loop of get_parallel_groups builds
parallel_group_of(graph, left) ==
    {node \in left : get_dependencies(graph, node) \cap left = {}}

(***************************************************************************)
(* utils/batch_processor.py: BatchProcessor.process_parallel.  The values  *)
(* of the list results are None, a result of process_func, or the dict     *)
(* {'error': str(e)}.                                                      *)
(***************************************************************************)
NoResult == [kind |-> "none"]
ResultValue(v) == [kind |-> "value", value |-> v]
ErrorRecord(text) == [kind |-> "error", error |-> text]

\* the process_func of the model: it raises on the items of FailingItems and
\* gives ten times the item otherwise
FailingItems == {3}

process_func(item) ==
    IF item \in FailingItems THEN Raised(<<"b","a","d"," ","i","t","e","m">>) ELSE Ok(item * 10)

\* the state the loop over as_completed leaves after one pass
LoopState(results, completed, calls, raised) ==
    [results |-> results, completed |-> completed, calls |-> calls, raised |-> raised]

\* the except branch of one pass of the loop, for the future at index whose
\* exception has the text given: the callback call in it is outside any try, so
\* its exception leaves the loop
loop_except(results, completed, calls, callback, index, text, callback_raises) ==
    LoopState([results EXCEPT ![index] = ErrorRecord(text)],
              completed + 1,
              IF callback = None THEN calls
              ELSE Append(calls, <<completed + 1, Len(results)>>),
              callback # None /\ callback_raises)

\* one pass of the loop over as_completed, for the future at index with the
\* returned given; first_raises and second_raises tell whether the callback
\* raises in the try block and in the except block
loop_pass(results, completed, calls, callback, index, returned, first_raises, second_raises) ==
    IF returned.status = "ok"
    THEN IF callback # None /\ first_raises
         THEN loop_except([results EXCEPT ![index] = ResultValue(returned.value)],
                          completed + 1,
                          Append(calls, <<completed + 1, Len(results)>>),
                          callback, index, <<"c","a","l","l","b","a","c","k"," ","f","a","i","l","e","d">>, second_raises)
         ELSE LoopState([results EXCEPT ![index] = ResultValue(returned.value)],
                        completed + 1,
                        IF callback = None THEN calls
                        ELSE Append(calls, <<completed + 1, Len(results)>>),
                        FALSE)
    ELSE loop_except(results, completed, calls, callback, index, returned.exc, second_raises)

(***************************************************************************)
(* WDLToCWLConverter.convert_directory and convert_file.  A path below a   *)
(* directory is the sequence of its names; a tree is the set of the        *)
(* entries [path, kind, content] below a directory, kind "file" or "dir".  *)
(* The content of a file of wdl_dir is its text, None for a file that      *)
(* cannot be read; the content of a file of cwl_dir is the document        *)
(* written to it, None for a file that was there before.                   *)
(***************************************************************************)
Entry(path, kind, content) == [path |-> path, kind |-> kind, content |-> content]

\* str(directory / path)
PathStr(directory, path) == Join(<<directory>> \o path, <<"/">>)

\* the entry of a tree at a path: None for a path that does not exist
EntryAt(tree, path) ==
    IF \E e \in tree : e.path = path THEN Some(CHOOSE e \in tree : e.path = path) ELSE None

\* wdl_dir.glob("**/*.wdl") and wdl_dir.glob("*.wdl"): the paths whose last name
\* matches *.wdl, at any depth or directly below wdl_dir
glob_wdl(tree, recursively) ==
    {e.path : e \in {f \in tree : /\ EndsWith(Last(f.path), <<".","w","d","l">>)
                                  /\ recursively \/ Len(f.path) = 1}}

\* rel_path.with_suffix('.cwl')
with_cwl_suffix(path) ==
    SubSeq(path, 1, Len(path) - 1) \o <<NameStem(Last(path)) \o <<".","c","w","l">>>>

\* the directories above a path, the nearest last
ParentsOf(path) == [k \in 1..(Len(path) - 1) |-> SubSeq(path, 1, k)]

\* cwl_file.parent.mkdir(parents=True, exist_ok=True) raises: a name on the
\* way is taken by a file
mkdir_raises(tree, path) ==
    \E k \in 1..(Len(path) - 1) :
        EntryAt(tree, SubSeq(path, 1, k)) # None
        /\ EntryAt(tree, SubSeq(path, 1, k))[1].kind = "file"

\* FileExistsError for the parent itself, NotADirectoryError for a directory
\* above it
mkdir_exception(tree, path) ==
    IF \E k \in 1..(Len(path) - 2) :
           EntryAt(tree, SubSeq(path, 1, k)) # None
           /\ EntryAt(tree, SubSeq(path, 1, k))[1].kind = "file"
    THEN "NotADirectoryError"
    ELSE "FileExistsError"

\* the tree after cwl_file.parent.mkdir(parents=True, exist_ok=True)
mkdir_parents(tree, path) ==
    tree \cup {Entry(ParentsOf(path)[k], "dir", None) :
                 k \in {j \in 1..(Len(path) - 1) : EntryAt(tree, ParentsOf(path)[j]) = None}}

LogRecord(level, message, exc) == [level |-> level, message |-> message, exc |-> exc]

\* the names of the two directories in the messages
WdlDirName == <<"i","n">>
CwlDirName == <<"o","u","t">>

\* the exception convert_file(wdl_file, cwl_file) raises, None when it returns:
\* open() of the source, parse_string, _element_to_cwl, open() of the target
convert_file_exception(source, cwl_tree_now, rel_path) ==
    IF source.kind = "dir" THEN Some("IsADirectoryError")
    ELSE IF source.content = None THEN Some("UnicodeDecodeError")
    ELSE IF convert_string_raises(source.content[1]) THEN Some("ValueError")
    ELSE IF /\ EntryAt(cwl_tree_now, with_cwl_suffix(rel_path)) # None
            /\ EntryAt(cwl_tree_now, with_cwl_suffix(rel_path))[1].kind = "dir"
    THEN Some("IsADirectoryError")
    ELSE None

\* the document convert_file writes for a source text
converted_document(source, rel_path) ==
    element_to_cwl(WDL_parse_string(source.content[1], PathStr(WdlDirName, rel_path)))

\* the records convert_file and the loop body log for one file
file_log(source, exception, rel_path) ==
    <<LogRecord("INFO", <<"P","a","r","s","i","n","g"," ","W","D","L"," ","f","i","l","e",":"," ">> \o PathStr(WdlDirName, rel_path), None)>>
    \o (IF source.kind = "file" /\ source.content # None
           /\ ~WDL_parse_string_raises(source.content[1])
        THEN <<LogRecord("INFO",
                         <<"W","r","i","t","i","n","g"," ","C","W","L"," ","f","i","l","e",":"," ">>
                           \o PathStr(CwlDirName, with_cwl_suffix(rel_path)),
                         None)>>
        ELSE <<>>)
    \o (IF exception = None
        THEN <<LogRecord("INFO", <<"C","o","n","v","e","r","t","e","d",":"," ">> \o Join(rel_path, <<"/">>), None)>>
        ELSE <<LogRecord("ERROR", <<"F","a","i","l","e","d"," ","t","o"," ","c","o","n","v","e","r","t"," ">> \o Join(rel_path, <<"/">>) \o <<":"," ">>,
                         exception)>>)

\* the tree below cwl_dir after convert_file
file_written(cwl_tree_now, source, exception, rel_path) ==
    IF exception # None THEN cwl_tree_now
    ELSE {e \in cwl_tree_now : e.path # with_cwl_suffix(rel_path)}
         \cup {Entry(with_cwl_suffix(rel_path), "file",
                     Some(converted_document(source, rel_path)))}

(***************************************************************************)
(* WDLToCWLConverter.convert_file and the command convert of cli.py.  The  *)
(* paths are relative to the working directory, whose entries are the list *)
(* files; an operation gives the record of its result and of the entries   *)
(* after it.                                                               *)
(***************************************************************************)
\* the entry of the working directory at a path: None for a path that does
\* not exist
FileAt(files, path) ==
    IF \E i \in 1..Len(files) : files[i].path = path
    THEN Some(files[CHOOSE i \in 1..Len(files) : files[i].path = path])
    ELSE None

\* the exception open(path, 'w') raises, None when it opens the file
open_for_writing_exception(files, path) ==
    IF FileAt(files, path) # None /\ FileAt(files, path)[1].kind = "dir"
    THEN Some("IsADirectoryError")
    ELSE IF \E k \in 1..(Len(path) - 1) :
                \/ FileAt(files, SubSeq(path, 1, k)) = None
                \/ FileAt(files, SubSeq(path, 1, k))[1].kind = "file"
    THEN Some("FileNotFoundError")
    ELSE None

\* the entries after a document has been written to the file at path
with_file(files, path, document) ==
    SelectSeq(files, LAMBDA e : e.path # path) \o <<Entry(path, "file", Some(document))>>

\* convert_file from the parsed element on: write_file when there is a
\* cwl_path, and the return of the element
convert_file_parsed(files, element, target_path) ==
    IF target_path = None THEN [result |-> Ok(element), files |-> files]
    ELSE IF element_to_cwl_raises(element)
    THEN [result |-> Raised("ValueError"), files |-> files]
    ELSE IF open_for_writing_exception(files, target_path[1]) # None
    THEN [result |-> Raised(open_for_writing_exception(files, target_path[1])[1]),
          files |-> files]
    ELSE [result |-> Ok(element),
          files |-> with_file(files, target_path[1], element_to_cwl(element))]

\* a convert_file that gives a missing cwl_path the default of the command
convert_file_with_default_target(files, source_path, target_path) ==
    convert_file_parsed(files,
                        WDL_parse_string(FileAt(files, source_path)[1].content[1],
                                         Join(source_path, <<"/">>)),
                        IF target_path = None THEN Some(with_cwl_suffix(source_path))
                        ELSE target_path)

\* WDLToCWLConverter.convert_file(wdl_path, cwl_path), for a source that
\* exists, is a text file and parses
convert_file(files, source_path, target_path) ==
    convert_file_parsed(files,
                        WDL_parse_string(FileAt(files, source_path)[1].content[1],
                                         Join(source_path, <<"/">>)),
                        target_path)

\* the exception parser.parse_file(wdl_path) raises, None when it returns
parse_file_exception(files, source_path) ==
    IF FileAt(files, source_path) = None THEN Some("FileNotFoundError")
    ELSE IF FileAt(files, source_path)[1].kind = "dir" THEN Some("IsADirectoryError")
    ELSE IF FileAt(files, source_path)[1].content = None THEN Some("UnicodeDecodeError")
    ELSE IF WDL_parse_string_raises(FileAt(files, source_path)[1].content[1])
    THEN Some("ValueError")
    ELSE None

\* the command convert: cwl_file defaults to wdl_file.with_suffix('.cwl'), and
\* an exception of convert_file ends the command with click.Abort
cli_convert(files, wdl_file, cwl_file) ==
    IF parse_file_exception(files, wdl_file) # None
    THEN [result |-> Raised("Abort"), files |-> files]
    ELSE LET done == convert_file(files, wdl_file,
                                  IF cwl_file = None THEN Some(with_cwl_suffix(wdl_file))
                                  ELSE cwl_file)
         IN [result |-> IF done.result.status = "ok" THEN Ok(None) ELSE Raised("Abort"),
             files |-> done.files]

(***************************************************************************)
(* The values of the variables a specification does not use.               *)
(***************************************************************************)
TypeIdle ==
    /\ ts = TypeSpec("String", None, FALSE)
    /\ cwl_type = None
    /\ cwl_parsed = None
    /\ wdl_type = None
    /\ wdl_parsed = None

ConvIdle ==
    /\ src = None
    /\ ir = None
    /\ converted = None
    /\ cwl_out = None
    /\ cwl_back = None
    /\ wdl_out = None
    /\ wdl_back = None

GraphIdle ==
    /\ wf = NewWorkflow(<<>>)
    /\ analyzer = None
    /\ execution_order = None
    /\ validation = None
    /\ conversion_valid = None
    /\ task_validation = None

DirIdle ==
    /\ wdl_tree = {}
    /\ cwl_tree = {}
    /\ recursive = TRUE
    /\ wdl_files = None
    /\ file_index = 1
    /\ log = <<>>
    /\ outcome = None

RuntimeIdle ==
    /\ task_runtime = EmptyRuntime
    /\ cwl_requirements = None

FileIdle ==
    /\ fs = <<>>
    /\ wdl_path = <<>>
    /\ cwl_path = None
    /\ file_result = None
    /\ cli_exit = None

BatchIdle ==
    /\ batch_items = <<>>
    /\ max_workers = 1
    /\ progress_callback = None
    /\ futures = <<>>
    /\ batch_results = <<>>
    /\ completed_count = 0
    /\ progress_calls = <<>>
    /\ batch_return = None

GroupsIdle ==
    /\ remaining = None
    /\ parallel_so_far = <<>>
    /\ parallel_groups = None

(***************************************************************************)
(* Language-A source texts: the wdl_content literals of                    *)
(* tests/test_wdl_to_cwl.py, character for character.                     *)
(***************************************************************************)
\* test_simple_task_conversion, lines 16-40
HelloSource == <<
    "\n", " ", " ", " ", " ", " ", " ", " ", " ", "v", "e", "r", "s", "i", "o", "n", " ", "1", ".",
    "0", "\n", " ", " ", " ", " ", " ", " ", " ", " ", "\n", " ", " ", " ", " ", " ", " ", " ",
    " ", "t", "a", "s", "k", " ", "h", "e", "l", "l", "o", " ", "{", "\n", " ", " ", " ", " ", " ",
    " ", " ", " ", " ", " ", " ", " ", "i", "n", "p", "u", "t", " ", "{", "\n", " ", " ", " ", " ",
    " ", " ", " ", " ", " ", " ", " ", " ", " ", " ", " ", " ", "S", "t", "r", "i", "n", "g", " ",
    "n", "a", "m", "e", "\n", " ", " ", " ", " ", " ", " ", " ", " ", " ", " ", " ", " ", " ", " ",
    " ", " ", "F", "i", "l", "e", " ", "i", "n", "p", "u", "t", "_", "f", "i", "l", "e", "\n", " ",
    " ", " ", " ", " ", " ", " ", " ", " ", " ", " ", " ", "}", "\n", " ", " ", " ", " ", " ", " ",
    " ", " ", " ", " ", " ", " ", "\n", " ", " ", " ", " ", " ", " ", " ", " ", " ", " ", " ", " ",
    "c", "o", "m", "m", "a", "n", "d", " ", "<", "<", "<", "\n", " ", " ", " ", " ", " ", " ", " ",
    " ", " ", " ", " ", " ", " ", " ", " ", " ", "e", "c", "h", "o", " ", "\"", "H", "e", "l", "l",
    "o", ",", " ", "~", "{", "n", "a", "m", "e", "}", "!", "\"", "\n", " ", " ", " ", " ", " ",
    " ", " ", " ", " ", " ", " ", " ", " ", " ", " ", " ", "c", "a", "t", " ", "~", "{", "i", "n",
    "p", "u", "t", "_", "f", "i", "l", "e", "}", "\n", " ", " ", " ", " ", " ", " ", " ", " ", " ",
    " ", " ", " ", ">", ">", ">", "\n", " ", " ", " ", " ", " ", " ", " ", " ", " ", " ", " ", " ",
    "\n", " ", " ", " ", " ", " ", " ", " ", " ", " ", " ", " ", " ", "r", "u", "n", "t", "i", "m",
    "e", " ", "{", "\n", " ", " ", " ", " ", " ", " ", " ", " ", " ", " ", " ", " ", " ", " ", " ",
    " ", "d", "o", "c", "k", "e", "r", ":", " ", "\"", "u", "b", "u", "n", "t", "u", ":", "2", "0",
    ".", "0", "4", "\"", "\n", " ", " ", " ", " ", " ", " ", " ", " ", " ", " ", " ", " ", " ",
    " ", " ", " ", "m", "e", "m", "o", "r", "y", ":", " ", "\"", "2", "G", "\"", "\n", " ", " ",
    " ", " ", " ", " ", " ", " ", " ", " ", " ", " ", " ", " ", " ", " ", "c", "p", "u", ":", " ",
    "1", "\n", " ", " ", " ", " ", " ", " ", " ", " ", " ", " ", " ", " ", "}", "\n", " ", " ",
    " ", " ", " ", " ", " ", " ", " ", " ", " ", " ", "\n", " ", " ", " ", " ", " ", " ", " ", " ",
    " ", " ", " ", " ", "o", "u", "t", "p", "u", "t", " ", "{", "\n", " ", " ", " ", " ", " ", " ",
    " ", " ", " ", " ", " ", " ", " ", " ", " ", " ", "F", "i", "l", "e", " ", "g", "r", "e", "e",
    "t", "i", "n", "g", " ", "=", " ", "s", "t", "d", "o", "u", "t", "(", ")", "\n", " ", " ", " ",
    " ", " ", " ", " ", " ", " ", " ", " ", " ", "}", "\n", " ", " ", " ", " ", " ", " ", " ", " ",
    "}", "\n", " ", " ", " ", " ", " ", " ", " ", " ">>

\* test_workflow_conversion, lines 54-85
WorkflowSource == <<
    "\n", " ", " ", " ", " ", " ", " ", " ", " ", "v", "e", "r", "s", "i", "o", "n", " ", "1", ".",
    "0", "\n", " ", " ", " ", " ", " ", " ", " ", " ", "\n", " ", " ", " ", " ", " ", " ", " ",
    " ", "t", "a", "s", "k", " ", "c", "o", "u", "n", "t", "_", "l", "i", "n", "e", "s", " ", "{",
    "\n", " ", " ", " ", " ", " ", " ", " ", " ", " ", " ", " ", " ", "i", "n", "p", "u", "t", " ",
    "{", "\n", " ", " ", " ", " ", " ", " ", " ", " ", " ", " ", " ", " ", " ", " ", " ", " ", "F",
    "i", "l", "e", " ", "i", "n", "p", "u", "t", "_", "f", "i", "l", "e", "\n", " ", " ", " ", " ",
    " ", " ", " ", " ", " ", " ", " ", " ", "}", "\n", " ", " ", " ", " ", " ", " ", " ", " ", " ",
    " ", " ", " ", "\n", " ", " ", " ", " ", " ", " ", " ", " ", " ", " ", " ", " ", "c", "o", "m",
    "m", "a", "n", "d", " ", "<", "<", "<", "\n", " ", " ", " ", " ", " ", " ", " ", " ", " ", " ",
    " ", " ", " ", " ", " ", " ", "w", "c", " ", "-", "l", " ", "<", " ", "~", "{", "i", "n", "p",
    "u", "t", "_", "f", "i", "l", "e", "}", "\n", " ", " ", " ", " ", " ", " ", " ", " ", " ", " ",
    " ", " ", ">", ">", ">", "\n", " ", " ", " ", " ", " ", " ", " ", " ", " ", " ", " ", " ",
    "\n", " ", " ", " ", " ", " ", " ", " ", " ", " ", " ", " ", " ", "o", "u", "t", "p", "u", "t",
    " ", "{", "\n", " ", " ", " ", " ", " ", " ", " ", " ", " ", " ", " ", " ", " ", " ", " ", " ",
    "I", "n", "t", " ", "l", "i", "n", "e", "_", "c", "o", "u", "n", "t", " ", "=", " ", "r", "e",
    "a", "d", "_", "i", "n", "t", "(", "s", "t", "d", "o", "u", "t", "(", ")", ")", "\n", " ", " ",
    " ", " ", " ", " ", " ", " ", " ", " ", " ", " ", "}", "\n", " ", " ", " ", " ", " ", " ", " ",
    " ", "}", "\n", " ", " ", " ", " ", " ", " ", " ", " ", "\n", " ", " ", " ", " ", " ", " ",
    " ", " ", "w", "o", "r", "k", "f", "l", "o", "w", " ", "c", "o", "u", "n", "t", "_", "w", "o",
    "r", "k", "f", "l", "o", "w", " ", "{", "\n", " ", " ", " ", " ", " ", " ", " ", " ", " ", " ",
    " ", " ", "i", "n", "p", "u", "t", " ", "{", "\n", " ", " ", " ", " ", " ", " ", " ", " ", " ",
    " ", " ", " ", " ", " ", " ", " ", "F", "i", "l", "e", " ", "t", "e", "x", "t", "_", "f", "i",
    "l", "e", "\n", " ", " ", " ", " ", " ", " ", " ", " ", " ", " ", " ", " ", "}", "\n", " ",
    " ", " ", " ", " ", " ", " ", " ", " ", " ", " ", " ", "\n", " ", " ", " ", " ", " ", " ", " ",
    " ", " ", " ", " ", " ", "c", "a", "l", "l", " ", "c", "o", "u", "n", "t", "_", "l", "i", "n",
    "e", "s", " ", "{", "\n", " ", " ", " ", " ", " ", " ", " ", " ", " ", " ", " ", " ", " ", " ",
    " ", " ", "i", "n", "p", "u", "t", ":", "\n", " ", " ", " ", " ", " ", " ", " ", " ", " ", " ",
    " ", " ", " ", " ", " ", " ", " ", " ", " ", " ", "i", "n", "p", "u", "t", "_", "f", "i", "l",
    "e", " ", "=", " ", "t", "e", "x", "t", "_", "f", "i", "l", "e", "\n", " ", " ", " ", " ", " ",
    " ", " ", " ", " ", " ", " ", " ", "}", "\n", " ", " ", " ", " ", " ", " ", " ", " ", " ", " ",
    " ", " ", "\n", " ", " ", " ", " ", " ", " ", " ", " ", " ", " ", " ", " ", "o", "u", "t", "p",
    "u", "t", " ", "{", "\n", " ", " ", " ", " ", " ", " ", " ", " ", " ", " ", " ", " ", " ", " ",
    " ", " ", "I", "n", "t", " ", "t", "o", "t", "a", "l", "_", "l", "i", "n", "e", "s", " ", "=",
    " ", "c", "o", "u", "n", "t", "_", "l", "i", "n", "e", "s", ".", "l", "i", "n", "e", "_", "c",
    "o", "u", "n", "t", "\n", " ", " ", " ", " ", " ", " ", " ", " ", " ", " ", " ", " ", "}",
    "\n", " ", " ", " ", " ", " ", " ", " ", " ", "}", "\n", " ", " ", " ", " ", " ", " ", " ", " ">>

\* test_scatter_conversion, lines 145-176
ScatterSource == <<
    "\n", " ", " ", " ", " ", " ", " ", " ", " ", "v", "e", "r", "s", "i", "o", "n", " ", "1", ".",
    "0", "\n", " ", " ", " ", " ", " ", " ", " ", " ", "\n", " ", " ", " ", " ", " ", " ", " ",
    " ", "t", "a", "s", "k", " ", "p", "r", "o", "c", "e", "s", "s", "_", "f", "i", "l", "e", " ",
    "{", "\n", " ", " ", " ", " ", " ", " ", " ", " ", " ", " ", " ", " ", "i", "n", "p", "u", "t",
    " ", "{", "\n", " ", " ", " ", " ", " ", " ", " ", " ", " ", " ", " ", " ", " ", " ", " ", " ",
    "F", "i", "l", "e", " ", "i", "n", "p", "u", "t", "_", "f", "i", "l", "e", "\n", " ", " ", " ",
    " ", " ", " ", " ", " ", " ", " ", " ", " ", "}", "\n", " ", " ", " ", " ", " ", " ", " ", " ",
    " ", " ", " ", " ", "c", "o", "m", "m", "a", "n", "d", " ", "<", "<", "<", "\n", " ", " ", " ",
    " ", " ", " ", " ", " ", " ", " ", " ", " ", " ", " ", " ", " ", "p", "r", "o", "c", "e", "s",
    "s", " ", "~", "{", "i", "n", "p", "u", "t", "_", "f", "i", "l", "e", "}", "\n", " ", " ", " ",
    " ", " ", " ", " ", " ", " ", " ", " ", " ", ">", ">", ">", "\n", " ", " ", " ", " ", " ", " ",
    " ", " ", " ", " ", " ", " ", "o", "u", "t", "p", "u", "t", " ", "{", "\n", " ", " ", " ", " ",
    " ", " ", " ", " ", " ", " ", " ", " ", " ", " ", " ", " ", "F", "i", "l", "e", " ", "p", "r",
    "o", "c", "e", "s", "s", "e", "d", " ", "=", " ", "\"", "o", "u", "t", "p", "u", "t", ".", "t",
    "x", "t", "\"", "\n", " ", " ", " ", " ", " ", " ", " ", " ", " ", " ", " ", " ", "}", "\n",
    " ", " ", " ", " ", " ", " ", " ", " ", "}", "\n", " ", " ", " ", " ", " ", " ", " ", " ",
    "\n", " ", " ", " ", " ", " ", " ", " ", " ", "w", "o", "r", "k", "f", "l", "o", "w", " ", "s",
    "c", "a", "t", "t", "e", "r", "_", "w", "o", "r", "k", "f", "l", "o", "w", " ", "{", "\n", " ",
    " ", " ", " ", " ", " ", " ", " ", " ", " ", " ", " ", "i", "n", "p", "u", "t", " ", "{", "\n",
    " ", " ", " ", " ", " ", " ", " ", " ", " ", " ", " ", " ", " ", " ", " ", " ", "A", "r", "r",
    "a", "y", "[", "F", "i", "l", "e", "]", " ", "f", "i", "l", "e", "s", "\n", " ", " ", " ", " ",
    " ", " ", " ", " ", " ", " ", " ", " ", "}", "\n", " ", " ", " ", " ", " ", " ", " ", " ", " ",
    " ", " ", " ", "\n", " ", " ", " ", " ", " ", " ", " ", " ", " ", " ", " ", " ", "s", "c", "a",
    "t", "t", "e", "r", " ", "(", "f", "i", "l", "e", " ", "i", "n", " ", "f", "i", "l", "e", "s",
    ")", " ", "{", "\n", " ", " ", " ", " ", " ", " ", " ", " ", " ", " ", " ", " ", " ", " ", " ",
    " ", "c", "a", "l", "l", " ", "p", "r", "o", "c", "e", "s", "s", "_", "f", "i", "l", "e", " ",
    "{", "\n", " ", " ", " ", " ", " ", " ", " ", " ", " ", " ", " ", " ", " ", " ", " ", " ", " ",
    " ", " ", " ", "i", "n", "p", "u", "t", ":", "\n", " ", " ", " ", " ", " ", " ", " ", " ", " ",
    " ", " ", " ", " ", " ", " ", " ", " ", " ", " ", " ", " ", " ", " ", " ", "i", "n", "p", "u",
    "t", "_", "f", "i", "l", "e", " ", "=", " ", "f", "i", "l", "e", "\n", " ", " ", " ", " ", " ",
    " ", " ", " ", " ", " ", " ", " ", " ", " ", " ", " ", "}", "\n", " ", " ", " ", " ", " ", " ",
    " ", " ", " ", " ", " ", " ", "}", "\n", " ", " ", " ", " ", " ", " ", " ", " ", " ", " ", " ",
    " ", "\n", " ", " ", " ", " ", " ", " ", " ", " ", " ", " ", " ", " ", "o", "u", "t", "p", "u",
    "t", " ", "{", "\n", " ", " ", " ", " ", " ", " ", " ", " ", " ", " ", " ", " ", " ", " ", " ",
    " ", "A", "r", "r", "a", "y", "[", "F", "i", "l", "e", "]", " ", "r", "e", "s", "u", "l", "t",
    "s", " ", "=", " ", "p", "r", "o", "c", "e", "s", "s", "_", "f", "i", "l", "e", ".", "p", "r",
    "o", "c", "e", "s", "s", "e", "d", "\n", " ", " ", " ", " ", " ", " ", " ", " ", " ", " ", " ",
    " ", "}", "\n", " ", " ", " ", " ", " ", " ", " ", " ", "}", "\n", " ", " ", " ", " ", " ",
    " ", " ", " ">>

(***************************************************************************)
(* The TypeSpec values of the type round trips: a primitive, possibly      *)
(* wrapped in ARRAY up to MaxTypeDepth times, optional at any level.       *)
(***************************************************************************)
RECURSIVE TypeSpecsUpTo(_)
TypeSpecsUpTo(n) ==
    IF n = 0
    THEN {TypeSpec(b, None, o) : b \in Primitives, o \in BOOLEAN}
    ELSE TypeSpecsUpTo(n - 1) \cup
         {TypeSpec("Array", Some(i), o) : i \in TypeSpecsUpTo(n - 1), o \in BOOLEAN}

TypeInit ==
    /\ ts \in TypeSpecsUpTo(MaxTypeDepth)
    /\ cwl_type = None
    /\ cwl_parsed = None
    /\ wdl_type = None
    /\ wdl_parsed = None
    /\ ConvIdle
    /\ GraphIdle
    /\ DirIdle
    /\ RuntimeIdle
    /\ FileIdle
    /\ BatchIdle
    /\ GroupsIdle

ToCwlType ==
    /\ cwl_type = None
    /\ cwl_type' = Some(to_cwl_type(ts))
    /\ UNCHANGED <<ts, cwl_parsed, wdl_type, wdl_parsed>>
    /\ UNCHANGED <<convVars, graphVars, dirVars, runtimeVars, fileVars, batchVars, groupVars>>

ParseCwlType ==
    /\ cwl_type # None
    /\ cwl_parsed = None
    /\ cwl_parsed' = Some(CWL_parse_cwl_type(cwl_type[1]))
    /\ UNCHANGED <<ts, cwl_type, wdl_type, wdl_parsed>>
    /\ UNCHANGED <<convVars, graphVars, dirVars, runtimeVars, fileVars, batchVars, groupVars>>

ToWdlString ==
    /\ wdl_type = None
    /\ wdl_type' = Some(to_wdl_string(ts))
    /\ UNCHANGED <<ts, cwl_type, cwl_parsed, wdl_parsed>>
    /\ UNCHANGED <<convVars, graphVars, dirVars, runtimeVars, fileVars, batchVars, groupVars>>

ParseWdlType ==
    /\ wdl_type # None
    /\ wdl_parsed = None
    /\ wdl_parsed' = Some(WDL_parse_type(wdl_type[1]))
    /\ UNCHANGED <<ts, cwl_type, cwl_parsed, wdl_type>>
    /\ UNCHANGED <<convVars, graphVars, dirVars, runtimeVars, fileVars, batchVars, groupVars>>

TypeNext == ToCwlType \/ ParseCwlType \/ ToWdlString \/ ParseWdlType

SpecTypes == TypeInit /\ [][TypeNext]_vars

(***************************************************************************)
(* The Language-B types CWLParser reads: a token, a list of types, a dict  *)
(* with or without the keys type and items, or no type at all, nested up   *)
(* to MaxTypeDepth times.                                                  *)
(***************************************************************************)
KnownTokens == {"string", "int", "long", "float", "double", "boolean", "File", "Directory"}

CwlTokens == KnownTokens \cup {"null", "Any", "record"}

\* the lists over the types of the level below: no member, one member, one
\* member and null on either side, and two tokens
CwlListsOver(below) ==
    {<<>>} \cup {<<x>> : x \in below}
           \cup {<<CwlStr("null"), x>> : x \in below}
           \cup {<<x, CwlStr("null")>> : x \in below}
           \cup {<<CwlStr(a), CwlStr(b)>> : a, b \in CwlTokens}

RECURSIVE CwlTypeValues(_)
CwlTypeValues(n) ==
    IF n = 0
    THEN {CwlStr(t) : t \in CwlTokens} \cup {CwlNone}
    ELSE CwlTypeValues(n - 1)
         \cup {CwlDict(type, items) :
                 type \in {Some("array"), Some("record"), None},
                 items \in {None} \cup {Some(c) : c \in CwlTypeValues(n - 1)}}
         \cup {CwlListOf(l) : l \in CwlListsOver(CwlTypeValues(n - 1))}

CwlTypeInit ==
    /\ ts = TypeSpec("String", None, FALSE)
    /\ cwl_type \in {Some(c) : c \in CwlTypeValues(MaxTypeDepth)}
    /\ cwl_parsed = None
    /\ wdl_type = None
    /\ wdl_parsed = None
    /\ ConvIdle
    /\ GraphIdle
    /\ DirIdle
    /\ RuntimeIdle
    /\ FileIdle
    /\ BatchIdle
    /\ GroupsIdle

\* CWLParser()._parse_cwl_type(cwl_type)
ParseCwlTypeValue ==
    /\ cwl_type # None
    /\ cwl_parsed = None
    /\ cwl_parsed' = IF CWL_parse_cwl_type_raises(cwl_type[1])
                     THEN Some(Raised("TypeError"))
                     ELSE Some(Ok(CWL_parse_cwl_type(cwl_type[1])))
    /\ UNCHANGED <<ts, cwl_type, wdl_type, wdl_parsed>>
    /\ UNCHANGED <<convVars, graphVars, dirVars, runtimeVars, fileVars, batchVars, groupVars>>

CwlTypeNext == ParseCwlTypeValue

SpecCwlTypes == CwlTypeInit /\ [][CwlTypeNext]_vars

(***************************************************************************)
(* The conversions.  A run starts from a Language-A source text or from an *)
(* IR element built by the caller, and applies the parsers, the writers    *)
(* and the converter to it.                                                *)
(***************************************************************************)
\* the IR of the task of test_simple_task_conversion
HelloInputs ==
    <<Input(<<"n","a","m","e">>, TypeSpec("String", None, FALSE), None, None, FALSE),
      Input(<<"i","n","p","u","t","_","f","i","l","e">>, TypeSpec("File", None, FALSE), None, None, FALSE)>>

HelloOutputs ==
    <<Output(<<"g","r","e","e","t","i","n","g">>, TypeSpec("File", None, FALSE), None, Some(<<"s","t","d","o","u","t","(",")">>))>>

HelloCommand == <<"e","c","h","o"," ","\"","H","e","l","l","o",","," ","~","{","n","a","m","e","}","!","\"","\n","c","a","t"," ","~","{","i","n","p","u","t","_","f","i","l","e","}">>

SampleInputs ==
    {<<>>, HelloInputs,
     <<Input(<<"x","s">>, TypeSpec("Array", Some(TypeSpec("Int", None, FALSE)), FALSE),
             None, None, FALSE)>>}

SampleOutputs == {<<>>, HelloOutputs}

SampleCommands == {<<>>, <<"e","c","h","o"," ","h","i">>, HelloCommand}

SampleDockers == {None, Some(<<>>), Some(<<"u","b","u","n","t","u",":","2","0",".","0","4">>), Some(<<"i","m","g">>)}

\* "1T" is a memory string Runtime._parse_memory_to_mb raises ValueError for
SampleMemories == {None, Some(<<"2","G">>), Some(<<"5","1","2","M">>), Some(<<"1","T">>)}

SampleRuntimes ==
    {None} \cup
    {Some(Runtime(cpu, memory, None, docker, None, None, <<>>)) :
        cpu \in {None, Some(1)}, memory \in SampleMemories, docker \in SampleDockers}

SampleTasks ==
    {Task(name, inputs, outputs, command, runtime, None) :
        name \in {<<"h","e","l","l","o">>}, inputs \in SampleInputs, outputs \in SampleOutputs,
        command \in SampleCommands, runtime \in SampleRuntimes}

\* the task of test_simple_task_conversion, built by the caller
HelloTask ==
    Task(<<"h","e","l","l","o">>, HelloInputs, HelloOutputs, HelloCommand,
         Some(Runtime(Some(1), Some(<<"2","G">>), None, Some(<<"u","b","u","n","t","u",":","2","0",".","0","4">>), None, None, <<>>)),
         None)

SampleCallInputs ==
    {<<>>, <<<<<<"n","a","m","e">>, PyStr(<<"f","i","l","e">>)>>>>, <<<<<<"n","a","m","e">>, PyStr(<<"a",".","g","r","e","e","t","i","n","g">>)>>>>}

SampleCalls ==
    {WorkflowCall(call_id, <<"h","e","l","l","o">>, inputs, scatter, conditional) :
        call_id \in {<<"a">>, <<"b">>}, inputs \in SampleCallInputs,
        scatter \in {None, Some(<<"f","i","l","e">>)}, conditional \in {None, Some(<<"f","l","a","g">>)}}

RECURSIVE SeqsUpTo(_, _)
SeqsUpTo(S, n) ==
    IF n = 0 THEN {<<>>}
    ELSE SeqsUpTo(S, n - 1) \cup
         {Append(s, x) : s \in {t \in SeqsUpTo(S, n - 1) : Len(t) = n - 1}, x \in S}

SampleWorkflows ==
    {Workflow(<<"m","a","i","n","_","w","f">>, <<>>, <<>>, tasks, calls, <<>>, None) :
        tasks \in {<<>>, <<<<<<"h","e","l","l","o">>, HelloTask>>>>},
        calls \in SeqsUpTo(SampleCalls, MaxWorkflowCalls)}

\* workflows with two embedded tasks, and calls of a task the workflow has and
\* of one it has not
OtherTask == Task(<<"o","t","h","e","r">>, <<>>, <<>>, <<"e","c","h","o"," ","h","i">>, None, None)

TwoTaskWorkflows ==
    {Workflow(<<"m","a","i","n","_","w","f">>, <<>>, <<>>, <<<<<<"h","e","l","l","o">>, HelloTask>>, <<<<"o","t","h","e","r">>, OtherTask>>>>,
              calls, <<>>, None) :
        calls \in {<<>>,
                   <<WorkflowCall(<<"a">>, <<"h","e","l","l","o">>, <<>>, None, None),
                     WorkflowCall(<<"b">>, <<"o","t","h","e","r">>, <<>>, None, None)>>,
                   <<WorkflowCall(<<"a">>, <<"h","e","l","l","o">>, <<>>, None, None),
                     WorkflowCall(<<"b">>, <<"a","b","s","e","n","t">>, <<>>, None, None)>>}}

\* a task whose runtime carries an attribute the model has no field for
CustomTask ==
    Task(<<"h","e","l","l","o">>, <<>>, <<>>, <<"e","c","h","o"," ","h","i">>,
         Some(Runtime(None, None, None, Some(<<"i","m","g">>), None, None,
                      <<<<<<"g","p","u","T","y","p","e">>, PyStr(<<"k","8","0">>)>>>>)),
         None)

SampleElements == SampleTasks \cup SampleWorkflows \cup TwoTaskWorkflows \cup {CustomTask}

\* workflows whose one call stands in a scatter block, in an if block, and in
\* neither
InlineScatterSource ==
    <<"v","e","r","s","i","o","n"," ","1",".","0","\n","\n","w","o","r","k","f","l","o","w"," ","w"," ","{","\n"," "," ","s","c","a","t","t","e","r"," ","(","f","i","l","e"," ","i","n"," ","f","i","l","e","s",")"," ","{","\n"," "," "," "," ","c","a","l","l"," ","t","\n"," "," ","}","\n","}","\n">>

InlineConditionalSource ==
    <<"v","e","r","s","i","o","n"," ","1",".","0","\n","\n","w","o","r","k","f","l","o","w"," ","w"," ","{","\n"," "," ","i","f"," ","(","f","l","a","g",")"," ","{","\n"," "," "," "," ","c","a","l","l"," ","t"," ","a","s"," ","u","\n"," "," ","}","\n","}","\n">>

PlainCallSource == <<"v","e","r","s","i","o","n"," ","1",".","0","\n","\n","w","o","r","k","f","l","o","w"," ","w"," ","{","\n"," "," ","c","a","l","l"," ","t","\n","}","\n">>

\* texts with no task block and no workflow block: prose, the empty text, and
\* a workflow block that is never closed
MalformedSources == {<<"t","h","i","s"," ","i","s"," ","n","o","t"," ","a"," ","w","o","r","k","f","l","o","w">>, <<>>, <<"v","e","r","s","i","o","n"," ","1",".","0","\n","\n","w","o","r","k","f","l","o","w"," ","w"," ","{","\n">>}

\* the one task a, whose command echoes a text with braces
EchoTaskSource ==
    <<"v","e","r","s","i","o","n"," ","1",".","0","\n","\n","t","a","s","k"," ","a"," ","{","\n"," "," ","i","n","p","u","t"," ","{","\n"," "," "," "," ","S","t","r","i","n","g"," ","x","\n"," "," ","}","\n"," "," ","c","o","m","m","a","n","d"," ","<","<","<","\n"," "," "," "," ","e","c","h","o"," ","\"","t","a","s","k"," ","b"," ","{"," ","~","{","x","}"," ","}","\"","\n"," "," ",">",">",">","\n","}","\n">>

SampleSources ==
    {HelloSource, WorkflowSource, ScatterSource, InlineScatterSource,
     InlineConditionalSource, PlainCallSource, EchoTaskSource} \cup MalformedSources

\* documents the caller hands to CWLParser: without a class, of a class the
\* parser does not know, and a CommandLineTool
SampleDocuments ==
    {CwlDoc(Some(<<"v","1",".","2">>), class, Some(<<"x">>), None, None, Some(<<>>), Some(<<>>), None, None,
            None, None) :
        class \in {None, Some("ExpressionTool"), Some("CommandLineTool")}}

ConvInit ==
    /\ TypeIdle
    /\ GraphIdle
    /\ DirIdle
    /\ RuntimeIdle
    /\ FileIdle
    /\ BatchIdle
    /\ GroupsIdle
    /\ \/ src \in {Some(s) : s \in SampleSources} /\ ir = None /\ cwl_out = None
       \/ src = None /\ ir \in {Some(Ok(e)) : e \in SampleElements} /\ cwl_out = None
       \/ src = None /\ ir = None /\ cwl_out \in {Some(Ok(d)) : d \in SampleDocuments}
    /\ converted = None
    /\ cwl_back = None
    /\ wdl_out = None
    /\ wdl_back = None

\* parser.parse_string(src)
ParseString ==
    /\ src # None
    /\ ir = None
    /\ ir' = Some(IF WDL_parse_string_raises(src[1]) THEN Raised("ValueError")
                  ELSE Ok(WDL_parse_string(src[1], <<"s","t","r","i","n","g">>)))
    /\ UNCHANGED <<src, converted, cwl_out, cwl_back, wdl_out, wdl_back>>
    /\ UNCHANGED <<typeVars, graphVars, dirVars, runtimeVars, fileVars, batchVars, groupVars>>

\* converter.convert_string(src)
ConvertString ==
    /\ src # None
    /\ converted = None
    /\ converted' = Some(IF convert_string_raises(src[1]) THEN Raised("ValueError")
                         ELSE Ok(convert_string(src[1])))
    /\ UNCHANGED <<src, ir, cwl_out, cwl_back, wdl_out, wdl_back>>
    /\ UNCHANGED <<typeVars, graphVars, dirVars, runtimeVars, fileVars, batchVars, groupVars>>

\* a writer that sets the id main on the element itself, not on the document
\* it has built from it
WriteCwl_naming_the_element ==
    /\ IsOk(ir)
    /\ cwl_out = None
    /\ cwl_out' = Some(IF element_to_cwl_raises(ir[1].value) THEN Raised("ValueError")
                       ELSE Ok(element_to_cwl(ir[1].value)))
    /\ ir' = [ir EXCEPT ![1].value.name = <<"m","a","i","n">>]
    /\ UNCHANGED <<src, converted, cwl_back, wdl_out, wdl_back>>
    /\ UNCHANGED <<typeVars, graphVars, dirVars, runtimeVars, fileVars, batchVars, groupVars>>

\* CWLWriter().write(ir)
WriteCwl ==
    /\ IsOk(ir)
    /\ cwl_out = None
    /\ cwl_out' = Some(IF element_to_cwl_raises(ir[1].value) THEN Raised("ValueError")
                       ELSE Ok(element_to_cwl(ir[1].value)))
    /\ UNCHANGED <<src, ir, converted, cwl_back, wdl_out, wdl_back>>
    /\ UNCHANGED <<typeVars, graphVars, dirVars, runtimeVars, fileVars, batchVars, groupVars>>

\* CWLParser().parse_dict(document of cwl_out)
ParseCwl ==
    /\ IsOk(cwl_out)
    /\ cwl_back = None
    /\ cwl_back' = Some(IF CWL_parse_dict_raises(cwl_out[1].value)
                        THEN Raised(CWL_parse_dict_exception(cwl_out[1].value))
                        ELSE Ok(CWL_parse_dict(cwl_out[1].value)))
    /\ UNCHANGED <<src, ir, converted, cwl_out, wdl_out, wdl_back>>
    /\ UNCHANGED <<typeVars, graphVars, dirVars, runtimeVars, fileVars, batchVars, groupVars>>

\* WDLWriter().write(ir)
WriteWdl ==
    /\ IsOk(ir)
    /\ wdl_out = None
    /\ wdl_out' = Some(Ok(WDLWriter_write(ir[1].value)))
    /\ UNCHANGED <<src, ir, converted, cwl_out, cwl_back, wdl_back>>
    /\ UNCHANGED <<typeVars, graphVars, dirVars, runtimeVars, fileVars, batchVars, groupVars>>

\* WDLParser().parse_string(wdl_out)
ParseWdl ==
    /\ IsOk(wdl_out)
    /\ wdl_back = None
    /\ wdl_back' = Some(IF WDL_parse_string_raises(wdl_out[1].value)
                        THEN Raised("ValueError")
                        ELSE Ok(WDL_parse_string(wdl_out[1].value, <<"s","t","r","i","n","g">>)))
    /\ UNCHANGED <<src, ir, converted, cwl_out, cwl_back, wdl_out>>
    /\ UNCHANGED <<typeVars, graphVars, dirVars, runtimeVars, fileVars, batchVars, groupVars>>

ConvNext == ParseString \/ ConvertString \/ WriteCwl \/ ParseCwl \/ WriteWdl \/ ParseWdl

SpecConvert == ConvInit /\ [][ConvNext]_vars

(***************************************************************************)
(* The inputs of a call on the way to Language B and back: a workflow with *)
(* one call whose inputs x and y are absent, a literal or a reference to   *)
(* an output of another call.                                              *)
(***************************************************************************)
\* references call.output, and literals: words, a number, a file name, a path
\* and the empty text
InputReferences == {PyStr(<<"A",".","o","u","t">>), PyStr(<<"B",".","g","r","e","e","t","i","n","g">>)}

InputLiterals ==
    {PyStr(<<"f","i","l","e","s">>), PyStr(<<"\"","h","i","\"">>), PyStr(<<>>), PyStr(<<"i","n",".","t","x","t">>), PyStr(<<"1",".","5">>),
     PyStr(<<"d","a","t","a","/","i","n">>), PyInt(3), PyInt(0)}

InputMappings ==
    {xs \o ys : xs \in {<<>>} \cup {<<<<<<"x">>, v>>>> : v \in InputReferences \cup InputLiterals},
                ys \in {<<>>} \cup {<<<<<<"y">>, v>>>> : v \in InputReferences \cup InputLiterals}}

CallInputsInit ==
    /\ TypeIdle
    /\ GraphIdle
    /\ DirIdle
    /\ RuntimeIdle
    /\ FileIdle
    /\ BatchIdle
    /\ GroupsIdle
    /\ src = None
    /\ ir \in {Some(Ok(Workflow(<<"m","a","i","n","_","w","f">>, <<>>, <<>>, <<>>,
                                <<WorkflowCall(<<"C">>, <<"h","e","l","l","o">>, inputs, None, None)>>,
                                <<>>, None))) :
                 inputs \in InputMappings}
    /\ cwl_out = None
    /\ converted = None
    /\ cwl_back = None
    /\ wdl_out = None
    /\ wdl_back = None

\* CWLParser()._parse_step_inputs(step['in']) for each step of the written
\* workflow; cwl_back holds the mappings it returns, in the order of the steps
ParseStepInputs ==
    /\ IsOk(cwl_out)
    /\ cwl_out[1].value.steps # None
    /\ cwl_back = None
    /\ cwl_back' = Some(Ok(Map(cwl_out[1].value.steps[1],
                               LAMBDA step : CWL_parse_step_inputs(step[2].in[1]))))
    /\ UNCHANGED <<src, ir, converted, cwl_out, wdl_out, wdl_back>>
    /\ UNCHANGED <<typeVars, graphVars, dirVars, runtimeVars, fileVars, batchVars, groupVars>>

CallInputsNext == WriteCwl \/ ParseStepInputs

SpecCallInputs == CallInputsInit /\ [][CallInputsNext]_vars

(***************************************************************************)
(* The command templates of Task.to_cwl_tool: up to two tokens, separated  *)
(* by a space or a line end, with no marker, one marker, the same marker   *)
(* twice, two different markers, and braces that are no marker.            *)
(***************************************************************************)
CommandTokens ==
    {<<"e","c","h","o">>, <<"~","{","a","}">>, <<"$","{","b","}">>, <<"-","-","i","n","=","~","{","a","}">>, <<"~","{","a","}","~","{","a","}">>, <<"~","{","a","}","$","{","b","}">>, <<"$","{","b","}",",","~","{","a","}">>,
     <<"~","{","a","}","-","~","{","b","}","-","~","{","a","}">>, <<"~","{">>, <<"$","{","a","-","b","}">>, <<"$","{","}","~","{","a","}">>, <<"$","(","i","n","p","u","t","s",".","a",")">>}

CommandSeparators == {<<" ">>, <<"\n">>, <<" "," ","\n">>}

CommandTemplates ==
    {<<>>} \cup CommandTokens
           \cup {t \o <<" ">> : t \in CommandTokens}
           \cup {t \o s \o u : t \in CommandTokens, s \in CommandSeparators, u \in CommandTokens}

CommandInit ==
    /\ TypeIdle
    /\ GraphIdle
    /\ DirIdle
    /\ RuntimeIdle
    /\ FileIdle
    /\ BatchIdle
    /\ GroupsIdle
    /\ src = None
    /\ ir \in {Some(Ok(Task(<<"t">>, <<>>, <<>>, command, None, None))) :
                 command \in CommandTemplates}
    /\ cwl_out = None
    /\ converted = None
    /\ cwl_back = None
    /\ wdl_out = None
    /\ wdl_back = None

\* task.to_cwl_tool(), for the task of ir
ToCwlTool ==
    /\ IsOk(ir)
    /\ ir[1].value.cls = "Task"
    /\ cwl_out = None
    /\ cwl_out' = Some(IF to_cwl_tool_raises(ir[1].value) THEN Raised("ValueError")
                       ELSE Ok(to_cwl_tool(ir[1].value)))
    /\ UNCHANGED <<src, ir, converted, cwl_back, wdl_out, wdl_back>>
    /\ UNCHANGED <<typeVars, graphVars, dirVars, runtimeVars, fileVars, batchVars, groupVars>>

CommandNext == ToCwlTool

SpecCommand == CommandInit /\ [][CommandNext]_vars

(***************************************************************************)
(* Dependency analysis and validation.  A run starts from a Workflow built *)
(* by the caller, builds its analyzer, asks it for the execution order,    *)
(* and validates the workflow.                                             *)
(***************************************************************************)
\* the inputs of a call: references to the outputs of the calls A and B and of
\* a call the workflow does not have, a workflow input, a number, and
\* references with two dots and with nothing after the dot
GraphCallInputs ==
    {<<>>,
     <<<<<<"x">>, PyStr(<<"A",".","o","u","t">>)>>>>,
     <<<<<<"x">>, PyStr(<<"B",".","o","u","t">>)>>>>,
     <<<<<<"x">>, PyStr(<<"A",".","o","u","t">>)>>, <<<<"y">>, PyStr(<<"B",".","o","u","t">>)>>>>,
     <<<<<<"x">>, PyStr(<<"f","i","l","e","s">>)>>, <<<<"n">>, PyInt(1)>>>>,
     <<<<<<"x">>, PyStr(<<"C",".","o","u","t">>)>>, <<<<"y">>, PyStr(<<"A",".","o","u","t",".","m","o","r","e">>)>>>>,
     <<<<<<"x">>, PyStr(<<"A",".">>)>>>>}

GraphCalls ==
    {WorkflowCall(call_id, <<"h","e","l","l","o">>, inputs, None, None) :
        call_id \in {<<"A">>, <<"B">>}, inputs \in GraphCallInputs}

\* a task whose command is missing, one whose command interpolates names that
\* are no inputs, with a memory string the validator does not accept
NoCommandTask == Task(<<"h","e","l","l","o">>, HelloInputs, <<>>, <<>>, None, None)

UnknownVarsTask ==
    Task(<<"h","e","l","l","o">>, <<>>, <<>>, <<"c","a","t"," ","~","{","p","}"," ","$","{","q","}"," ","~","{","p","}">>,
         Some(Runtime(None, Some(<<"2","G","B">>), None, None, None, None, <<>>)), None)

\* the task hello with a memory string the validator does not accept
BadMemoryTask ==
    Task(<<"h","e","l","l","o">>, HelloInputs, HelloOutputs, HelloCommand,
         Some(Runtime(None, Some(<<"2","G","B">>), None, None, None, None, <<>>)), None)

\* workflows that differ in what the validator looks at besides the calls
ValidatorWorkflows ==
    {Workflow(name, inputs, outputs, tasks, calls, <<>>, None) :
        name \in {<<"w","f">>, <<>>},
        inputs \in {<<>>, <<Input(<<"f","i","l","e","s">>, TypeSpec("File", None, FALSE), None, None,
                                  FALSE)>>},
        outputs \in {<<>>,
                     <<Output(<<"r","e","s">>, TypeSpec("File", None, FALSE), None,
                              Some(<<"A",".","o","u","t">>))>>,
                     <<Output(<<"r","e","s">>, TypeSpec("File", None, FALSE), None,
                              Some(<<"Z",".","o","u","t">>))>>},
        tasks \in {<<<<<<"h","e","l","l","o">>, HelloTask>>>>, <<<<<<"h","e","l","l","o">>, NoCommandTask>>>>,
                   <<<<<<"h","e","l","l","o">>, UnknownVarsTask>>>>, <<<<<<"h","e","l","l","o">>, BadMemoryTask>>>>},
        calls \in {<<>>,
                   <<WorkflowCall(<<"A">>, <<"h","e","l","l","o">>,
                                  <<<<<<"n","a","m","e">>, PyStr(<<"f","i","l","e","s">>)>>,
                                    <<<<"i","n","p","u","t","_","f","i","l","e">>, PyStr(<<"B",".","o","u","t">>)>>>>, None, None),
                     WorkflowCall(<<"B">>, <<"h","e","l","l","o">>, <<<<<<"e","x","t","r","a">>, PyStr(<<"A",".","o","u","t">>)>>>>,
                                  None, None)>>,
                   <<WorkflowCall(<<"A">>, <<"h","e","l","l","o">>,
                                  <<<<<<"n","a","m","e">>, PyStr(<<"f","i","l","e","s">>)>>,
                                    <<<<"i","n","p","u","t","_","f","i","l","e">>, PyStr(<<"f","i","l","e","s">>)>>>>, None, None),
                     WorkflowCall(<<"B">>, <<"o","t","h","e","r">>, <<<<<<"n","a","m","e">>, PyStr(<<"A",".","g","r","e","e","t","i","n","g">>)>>>>,
                                  None, None)>>}}

GraphWorkflows ==
    {Workflow(<<"w","f">>, <<>>, <<>>, <<>>, calls, <<>>, None) :
        calls \in SeqsUpTo(GraphCalls, MaxGraphCalls)}
    \cup ValidatorWorkflows

GraphInit ==
    /\ TypeIdle
    /\ ConvIdle
    /\ DirIdle
    /\ RuntimeIdle
    /\ FileIdle
    /\ BatchIdle
    /\ GroupsIdle
    /\ wf \in GraphWorkflows
    /\ analyzer = None
    /\ execution_order = None
    /\ validation = None
    /\ conversion_valid = None
    /\ task_validation = None

\* analyzer = WorkflowGraphAnalyzer(wf)
BuildAnalyzer ==
    /\ analyzer = None
    /\ analyzer' = Some(WorkflowGraphAnalyzer(wf))
    /\ UNCHANGED <<wf, execution_order, validation, conversion_valid, task_validation>>
    /\ UNCHANGED <<typeVars, convVars, dirVars, runtimeVars, fileVars, batchVars, groupVars>>

\* analyzer.get_execution_order()
GetExecutionOrder ==
    /\ analyzer # None
    /\ execution_order = None
    /\ \E result \in get_execution_order(analyzer[1].graph) :
           execution_order' = Some(result)
    /\ UNCHANGED <<wf, analyzer, validation, conversion_valid, task_validation>>
    /\ UNCHANGED <<typeVars, convVars, dirVars, runtimeVars, fileVars, batchVars, groupVars>>

\* WorkflowValidator().validate_workflow(wf)
ValidateWorkflow ==
    /\ validation = None
    /\ \E result \in validate_workflow(wf) : validation' = Some(Ok(result))
    /\ UNCHANGED <<wf, analyzer, execution_order, conversion_valid, task_validation>>
    /\ UNCHANGED <<typeVars, convVars, dirVars, runtimeVars, fileVars, batchVars, groupVars>>

\* WDLToCWLConverter().validate_conversion(wf)
ValidateConversion ==
    /\ conversion_valid = None
    /\ conversion_valid' = Some(Ok(validate_conversion(wf)))
    /\ UNCHANGED <<wf, analyzer, execution_order, validation, task_validation>>
    /\ UNCHANGED <<typeVars, convVars, dirVars, runtimeVars, fileVars, batchVars, groupVars>>

\* WorkflowValidator().validate_task(task), for a task of wf
ValidateTask ==
    /\ task_validation = None
    /\ \E i \in 1..Len(wf.tasks) :
           \E result \in validate_task(wf.tasks[i][2]) : task_validation' = Some(Ok(result))
    /\ UNCHANGED <<wf, analyzer, execution_order, validation, conversion_valid>>
    /\ UNCHANGED <<typeVars, convVars, dirVars, runtimeVars, fileVars, batchVars, groupVars>>

GraphNext ==
    BuildAnalyzer \/ GetExecutionOrder \/ ValidateWorkflow \/ ValidateConversion \/ ValidateTask

SpecGraph == GraphInit /\ [][GraphNext]_vars

(***************************************************************************)
(* The groups of calls that can run in parallel.  A workflow of up to      *)
(* MaxGraphCalls + 1 calls A, B, C, each with no reference or with a       *)
(* reference to the output of A, of B or of C: chains, forks, calls that   *)
(* refer to themselves, cycles, and calls that depend on a cycle.          *)
(***************************************************************************)
GroupCallIds == {<<"A">>, <<"B">>, <<"C">>}

GroupCalls ==
    {WorkflowCall(call_id, <<"h","e","l","l","o">>, inputs, None, None) :
        call_id \in GroupCallIds,
        inputs \in {<<>>} \cup {<<<<<<"x">>, PyStr(d \o <<".","o","u","t">>)>>>> : d \in GroupCallIds}}

GroupsInit ==
    /\ TypeIdle
    /\ ConvIdle
    /\ DirIdle
    /\ RuntimeIdle
    /\ FileIdle
    /\ BatchIdle
    /\ wf \in {Workflow(<<"w","f">>, <<>>, <<>>, <<>>, calls, <<>>, None) :
                 calls \in SeqsUpTo(GroupCalls, MaxGraphCalls + 1)}
    /\ analyzer = Some(WorkflowGraphAnalyzer(wf))
    /\ execution_order = None
    /\ validation = None
    /\ conversion_valid = None
    /\ task_validation = None
    /\ GroupsIdle

\* analyzer.get_parallel_groups() is called: groups = [], remaining =
\* set(self.graph.nodes())
EnterParallelGroups ==
    /\ analyzer # None
    /\ remaining = None
    /\ parallel_groups = None
    /\ remaining' = Some(analyzer[1].graph.nodes)
    /\ parallel_so_far' = <<>>
    /\ UNCHANGED parallel_groups
    /\ UNCHANGED <<typeVars, convVars, graphVars, dirVars, runtimeVars, fileVars, batchVars>>

\* one pass of 'while remaining': the group is appended and taken from
\* remaining, or, when it is empty, the loop is left and groups returned
PassParallelGroups ==
    /\ remaining # None
    /\ parallel_groups = None
    /\ remaining[1] # {}
    /\ \E parallel_group \in {parallel_group_of(analyzer[1].graph, remaining[1])} :
           IF parallel_group # {}
           THEN /\ parallel_so_far' = Append(parallel_so_far, parallel_group)
                /\ remaining' = Some(remaining[1] \ parallel_group)
                /\ UNCHANGED parallel_groups
           ELSE /\ parallel_groups' = Some(parallel_so_far)
                /\ UNCHANGED <<remaining, parallel_so_far>>
    /\ UNCHANGED <<typeVars, convVars, graphVars, dirVars, runtimeVars, fileVars, batchVars>>

\* remaining is empty: return groups
ReturnParallelGroups ==
    /\ remaining = Some({})
    /\ parallel_groups = None
    /\ parallel_groups' = Some(parallel_so_far)
    /\ UNCHANGED <<remaining, parallel_so_far>>
    /\ UNCHANGED <<typeVars, convVars, graphVars, dirVars, runtimeVars, fileVars, batchVars>>

GroupsNext == EnterParallelGroups \/ PassParallelGroups \/ ReturnParallelGroups

\* the call runs to its end: the thread that runs it is never held back
SpecGroups == GroupsInit /\ [][GroupsNext]_vars /\ WF_vars(GroupsNext)

(***************************************************************************)
(* convert_directory.  A run starts from a directory of sources and a      *)
(* destination, which may hold entries already; the call lists the         *)
(* sources, converts them one by one, and returns or raises.               *)
(***************************************************************************)
TinyTaskSource == <<"t","a","s","k"," ","t"," ","{","\n"," "," ","c","o","m","m","a","n","d"," ","{"," ","e","c","h","o"," ","h","i"," ","}","\n","}","\n">>

\* a.wdl, a b.wdl that is no text, sub/c.wdl, a directory named d.wdl, and a file
\* that is no source
SourceEntries ==
    {Entry(<<<<"a",".","w","d","l">>>>, "file", Some(PlainCallSource)),
     Entry(<<<<"b",".","w","d","l">>>>, "file", None),
     Entry(<<<<"s","u","b">>>>, "dir", None),
     Entry(<<<<"s","u","b">>, <<"c",".","w","d","l">>>>, "file", Some(TinyTaskSource)),
     Entry(<<<<"d",".","w","d","l">>>>, "dir", None),
     Entry(<<<<"n","o","t","e","s",".","t","x","t">>>>, "file", Some(<<"n","o","t","e","s">>))}

\* the trees: an entry below a directory comes with the directory
SourceTrees ==
    {tree \in SUBSET SourceEntries :
        \A e \in tree : \A k \in 1..(Len(e.path) - 1) :
            \E d \in tree : d.path = SubSeq(e.path, 1, k) /\ d.kind = "dir"}

\* the destination before the call: empty, or with the name sub taken by a
\* directory or by a file, or with the name a.cwl taken by a directory
DestinationTrees ==
    {{}, {Entry(<<<<"s","u","b">>>>, "dir", None)}, {Entry(<<<<"s","u","b">>>>, "file", None)},
     {Entry(<<<<"a",".","c","w","l">>>>, "dir", None)}}

DirInit ==
    /\ TypeIdle
    /\ ConvIdle
    /\ GraphIdle
    /\ RuntimeIdle
    /\ FileIdle
    /\ BatchIdle
    /\ GroupsIdle
    /\ wdl_tree \in SourceTrees
    /\ cwl_tree \in DestinationTrees
    /\ recursive \in BOOLEAN
    /\ wdl_files = None
    /\ file_index = 1
    /\ log = <<>>
    /\ outcome = None

\* convert_directory up to the loop: cwl_dir.mkdir, the glob in the order the
\* file system gives, the first record
ListSources ==
    /\ wdl_files = None
    /\ \E files \in Perms(glob_wdl(wdl_tree, recursive)) :
           /\ wdl_files' = Some(files)
           /\ log' = <<LogRecord("INFO",
                                 <<"F","o","u","n","d"," ">> \o IntToStr(Len(files))
                                   \o <<" ","W","D","L"," ","f","i","l","e","s"," ","t","o"," ","c","o","n","v","e","r","t">>,
                                 None)>>
    /\ UNCHANGED <<wdl_tree, cwl_tree, recursive, file_index, outcome>>
    /\ UNCHANGED <<typeVars, convVars, graphVars, runtimeVars, fileVars, batchVars, groupVars>>

\* one turn of the loop whose mkdir raises: the exception leaves the call
ConvertFileAborts ==
    /\ wdl_files # None
    /\ outcome = None
    /\ file_index <= Len(wdl_files[1])
    /\ mkdir_raises(cwl_tree, with_cwl_suffix(wdl_files[1][file_index]))
    /\ outcome' = Some(Raised(mkdir_exception(cwl_tree,
                                              with_cwl_suffix(wdl_files[1][file_index]))))
    /\ UNCHANGED <<wdl_tree, cwl_tree, recursive, wdl_files, file_index, log>>
    /\ UNCHANGED <<typeVars, convVars, graphVars, runtimeVars, fileVars, batchVars, groupVars>>

\* one turn of the loop: mkdir, convert_file, and the record of how it went
ConvertFile ==
    /\ wdl_files # None
    /\ outcome = None
    /\ file_index <= Len(wdl_files[1])
    /\ ~mkdir_raises(cwl_tree, with_cwl_suffix(wdl_files[1][file_index]))
    /\ LET rel_path == wdl_files[1][file_index]
           source == EntryAt(wdl_tree, rel_path)[1]
           made == mkdir_parents(cwl_tree, with_cwl_suffix(rel_path))
           exception == convert_file_exception(source, made, rel_path)
       IN /\ cwl_tree' = file_written(made, source, exception, rel_path)
          /\ log' = log \o file_log(source, exception, rel_path)
    /\ file_index' = file_index + 1
    /\ UNCHANGED <<wdl_tree, recursive, wdl_files, outcome>>
    /\ UNCHANGED <<typeVars, convVars, graphVars, runtimeVars, fileVars, batchVars, groupVars>>

\* the loop is over: convert_directory returns None
ReturnFromDirectory ==
    /\ wdl_files # None
    /\ outcome = None
    /\ file_index > Len(wdl_files[1])
    /\ outcome' = Some(Ok(None))
    /\ UNCHANGED <<wdl_tree, cwl_tree, recursive, wdl_files, file_index, log>>
    /\ UNCHANGED <<typeVars, convVars, graphVars, runtimeVars, fileVars, batchVars, groupVars>>

DirNext == ListSources \/ ConvertFileAborts \/ ConvertFile \/ ReturnFromDirectory

SpecDirectory == DirInit /\ [][DirNext]_vars

(***************************************************************************)
(* The conversion of one file.  The working directory holds the source,   *)
(* the directory d and possibly a file at the place the source path with   *)
(* the extension .cwl names; the caller calls convert_file, or runs the    *)
(* command convert, with or without a destination.                         *)
(***************************************************************************)
SourcePaths == {<<<<"a",".","w","d","l">>>>, <<<<"d">>, <<"a",".","w","d","l">>>>, <<<<"a">>>>, <<<<"a",".","t","a","r",".","w","d","l">>>>}

\* the content of the source: None is a file that is no text
SourceContents ==
    {Some(TinyTaskSource), Some(PlainCallSource), Some(<<"t","h","i","s"," ","i","s"," ","n","o","t"," ","a"," ","w","o","r","k","f","l","o","w">>), None}

\* a file in the working directory, one in d, the directory d itself, and a
\* file in a directory that does not exist
TargetPaths ==
    {None, Some(<<<<"o","u","t",".","c","w","l">>>>), Some(<<<<"d">>, <<"b",".","c","w","l">>>>), Some(<<<<"d">>>>),
     Some(<<<<"m","i","s","s","i","n","g">>, <<"b",".","c","w","l">>>>)}

FileInit ==
    /\ TypeIdle
    /\ ConvIdle
    /\ GraphIdle
    /\ DirIdle
    /\ RuntimeIdle
    /\ BatchIdle
    /\ GroupsIdle
    /\ wdl_path \in SourcePaths
    /\ cwl_path \in TargetPaths
    /\ \E content \in SourceContents, taken \in BOOLEAN :
           fs = <<Entry(<<<<"d">>>>, "dir", None), Entry(wdl_path, "file", content)>>
                \o (IF taken THEN <<Entry(with_cwl_suffix(wdl_path), "file", None)>>
                    ELSE <<>>)
    /\ file_result = None
    /\ cli_exit = None

\* converter.convert_file(wdl_path, cwl_path)
CallConvertFile ==
    /\ file_result = None
    /\ cli_exit = None
    /\ IF parse_file_exception(fs, wdl_path) # None
       THEN /\ file_result' = Some(Raised(parse_file_exception(fs, wdl_path)[1]))
            /\ fs' = fs
       ELSE \E done \in {convert_file(fs, wdl_path, cwl_path)} :
                /\ file_result' = Some(done.result)
                /\ fs' = done.files
    /\ UNCHANGED <<wdl_path, cwl_path, cli_exit>>
    /\ UNCHANGED <<typeVars, convVars, graphVars, dirVars, runtimeVars, batchVars, groupVars>>

\* the command convert wdl_file [cwl_file]
RunConvertCommand ==
    /\ file_result = None
    /\ cli_exit = None
    /\ \E done \in {cli_convert(fs, wdl_path, cwl_path)} :
           /\ cli_exit' = Some(done.result)
           /\ fs' = done.files
    /\ UNCHANGED <<wdl_path, cwl_path, file_result>>
    /\ UNCHANGED <<typeVars, convVars, graphVars, dirVars, runtimeVars, batchVars, groupVars>>

FileNext == CallConvertFile \/ RunConvertCommand

SpecFile == FileInit /\ [][FileNext]_vars

(***************************************************************************)
(* The converter's check of an element.  The caller hands a Task or a      *)
(* Workflow to validate_conversion.                                        *)
(***************************************************************************)
\* tasks with and without a name and a command
CheckedTasks ==
    {Task(name, inputs, <<>>, command, None, None) :
        name \in {<<>>, <<"h","e","l","l","o">>}, inputs \in {<<>>, HelloInputs},
        command \in {<<>>, <<"e","c","h","o"," ","h","i">>}}

\* calls of the tasks hello and other and of a task no workflow has
CheckedCalls ==
    {WorkflowCall(<<"a">>, task_name, <<>>, None, None) :
        task_name \in {<<"h","e","l","l","o">>, <<"o","t","h","e","r">>, <<"a","b","s","e","n","t">>}}

\* workflows with and without a name, that own none, one or both of the tasks
CheckedWorkflows ==
    {Workflow(name, <<>>, <<>>, tasks, calls, <<>>, None) :
        name \in {<<>>, <<"w","f">>},
        tasks \in {<<>>, <<<<<<"h","e","l","l","o">>, HelloTask>>>>,
                   <<<<<<"h","e","l","l","o">>, HelloTask>>, <<<<"o","t","h","e","r">>, OtherTask>>>>},
        calls \in SeqsUpTo(CheckedCalls, MaxWorkflowCalls + 1)}

ValidationInit ==
    /\ TypeIdle
    /\ DirIdle
    /\ RuntimeIdle
    /\ FileIdle
    /\ BatchIdle
    /\ GroupsIdle
    /\ src = None
    /\ ir \in {Some(Ok(e)) : e \in CheckedTasks \cup CheckedWorkflows}
    /\ converted = None
    /\ cwl_out = None
    /\ cwl_back = None
    /\ wdl_out = None
    /\ wdl_back = None
    /\ GraphIdle

\* WDLToCWLConverter().validate_conversion(element)
ValidateElement ==
    /\ IsOk(ir)
    /\ conversion_valid = None
    /\ conversion_valid' = Some(Ok(validate_conversion(ir[1].value)))
    /\ UNCHANGED <<wf, analyzer, execution_order, validation, task_validation>>
    /\ UNCHANGED <<typeVars, convVars, dirVars, runtimeVars, fileVars, batchVars, groupVars>>

ValidationNext == ValidateElement

SpecValidation == ValidationInit /\ [][ValidationNext]_vars

(***************************************************************************)
(* The resource requirements of a Runtime.  The memory and the disk are    *)
(* absent or an amount: a number up to MaxAmount followed by M, G or T.    *)
(***************************************************************************)
Units == {"M", "G", "T"}

Amount(n, u) == IntToStr(n) \o <<u>>

SampleAmounts == {None} \cup {Some(Amount(n, u)) : n \in 0..MaxAmount, u \in Units}

RuntimeInit ==
    /\ TypeIdle
    /\ ConvIdle
    /\ GraphIdle
    /\ DirIdle
    /\ FileIdle
    /\ BatchIdle
    /\ GroupsIdle
    /\ task_runtime \in {Runtime(cpu, memory, disk, None, None, None, <<>>) :
                  cpu \in {None, Some(2)}, memory \in SampleAmounts, disk \in SampleAmounts}
    /\ cwl_requirements = None

\* task_runtime.to_cwl_requirements()
ToCwlRequirements ==
    /\ cwl_requirements = None
    /\ cwl_requirements' = Some(IF to_cwl_requirements_raises(task_runtime) THEN Raised("ValueError")
                            ELSE Ok(to_cwl_requirements(task_runtime)))
    /\ UNCHANGED task_runtime
    /\ UNCHANGED <<typeVars, convVars, graphVars, dirVars, fileVars, batchVars, groupVars>>

RuntimeNext == ToCwlRequirements

SpecRuntime == RuntimeInit /\ [][RuntimeNext]_vars

(***************************************************************************)
(* process_parallel over up to MaxItems items, with one or two workers and *)
(* without a progress callback, with one that returns, and with one that   *)
(* may raise.  A future is queued, running, finished or taken by the loop  *)
(* over as_completed.                                                      *)
(***************************************************************************)
SampleItems == {1, 2, 3}

CallbackKinds == {None, Some("returns"), Some("may raise")}

BatchInit ==
    /\ TypeIdle
    /\ ConvIdle
    /\ GraphIdle
    /\ DirIdle
    /\ RuntimeIdle
    /\ FileIdle
    /\ GroupsIdle
    /\ batch_items \in SeqsUpTo(SampleItems, MaxItems)
    /\ max_workers \in {1, 2}
    /\ progress_callback \in CallbackKinds
    /\ futures = [i \in 1..Len(batch_items) |-> "queued"]
    /\ batch_results = [i \in 1..Len(batch_items) |-> NoResult]
    /\ completed_count = 0
    /\ progress_calls = <<>>
    /\ batch_return = None

\* a worker thread takes the first queued call of process_func
StartWork ==
    /\ batch_return = None
    /\ Cardinality({i \in 1..Len(futures) : futures[i] = "running"}) < max_workers
    /\ \E i \in 1..Len(futures) :
           /\ futures[i] = "queued"
           /\ \A j \in 1..(i - 1) : futures[j] # "queued"
           /\ futures' = [futures EXCEPT ![i] = "running"]
    /\ UNCHANGED <<batch_items, max_workers, progress_callback, batch_results,
                   completed_count, progress_calls, batch_return>>
    /\ UNCHANGED <<typeVars, convVars, graphVars, dirVars, runtimeVars, fileVars, groupVars>>

\* a call of process_func returns or raises in its worker thread
FinishWork ==
    /\ batch_return = None
    /\ \E i \in 1..Len(futures) :
           /\ futures[i] = "running"
           /\ futures' = [futures EXCEPT ![i] = "finished"]
    /\ UNCHANGED <<batch_items, max_workers, progress_callback, batch_results,
                   completed_count, progress_calls, batch_return>>
    /\ UNCHANGED <<typeVars, convVars, graphVars, dirVars, runtimeVars, fileVars, groupVars>>

\* one pass of the loop over as_completed(future_to_index)
TakeCompleted ==
    /\ batch_return = None
    /\ \E i \in 1..Len(futures), first_raises, second_raises \in BOOLEAN :
           /\ futures[i] = "finished"
           /\ progress_callback = Some("may raise") \/ (~first_raises /\ ~second_raises)
           /\ \E after \in {loop_pass(batch_results, completed_count, progress_calls,
                                      progress_callback, i, process_func(batch_items[i]),
                                      first_raises, second_raises)} :
                  /\ batch_results' = after.results
                  /\ completed_count' = after.completed
                  /\ progress_calls' = after.calls
                  /\ batch_return' = IF after.raised THEN Some(Raised("RuntimeError"))
                                     ELSE None
           /\ futures' = [futures EXCEPT ![i] = "taken"]
    /\ UNCHANGED <<batch_items, max_workers, progress_callback>>
    /\ UNCHANGED <<typeVars, convVars, graphVars, dirVars, runtimeVars, fileVars, groupVars>>

\* return results
ReturnResults ==
    /\ batch_return = None
    /\ \A i \in 1..Len(futures) : futures[i] = "taken"
    /\ batch_return' = Some(Ok(batch_results))
    /\ UNCHANGED <<batch_items, max_workers, progress_callback, futures, batch_results,
                   completed_count, progress_calls>>
    /\ UNCHANGED <<typeVars, convVars, graphVars, dirVars, runtimeVars, fileVars, groupVars>>

BatchNext == StartWork \/ FinishWork \/ TakeCompleted \/ ReturnResults

SpecBatch == BatchInit /\ [][BatchNext]_vars

(***************************************************************************)
(* A workflow that grows.  The caller starts from an empty workflow, adds  *)
(* calls and tasks to it, and may build the analyzer, ask it for the       *)
(* execution order and validate the workflow before, between and after    *)
(* the additions.                                                          *)
(***************************************************************************)
IncrementalInit ==
    /\ TypeIdle
    /\ ConvIdle
    /\ DirIdle
    /\ RuntimeIdle
    /\ FileIdle
    /\ BatchIdle
    /\ GroupsIdle
    /\ wf = NewWorkflow(<<"w","f">>)
    /\ analyzer = None
    /\ execution_order = None
    /\ validation = None
    /\ conversion_valid = None
    /\ task_validation = None

\* wf.add_call(call); the analyzer holds a reference to the workflow, and the
\* graph it was given when it was built
AddCall ==
    /\ Len(wf.calls) < MaxGraphCalls
    /\ \E call \in GraphCalls : wf' = add_call(wf, call)
    /\ analyzer' = IF analyzer = None THEN None
                   ELSE Some([analyzer[1] EXCEPT !.workflow = wf'])
    /\ UNCHANGED <<execution_order, validation, conversion_valid, task_validation>>
    /\ UNCHANGED <<typeVars, convVars, dirVars, runtimeVars, fileVars, batchVars, groupVars>>

\* wf.add_task(task), for the task hello the calls name
AddTask ==
    /\ wf' = add_task(wf, HelloTask)
    /\ analyzer' = IF analyzer = None THEN None
                   ELSE Some([analyzer[1] EXCEPT !.workflow = wf'])
    /\ UNCHANGED <<execution_order, validation, conversion_valid, task_validation>>
    /\ UNCHANGED <<typeVars, convVars, dirVars, runtimeVars, fileVars, batchVars, groupVars>>

IncrementalNext == AddCall \/ AddTask \/ BuildAnalyzer \/ GetExecutionOrder \/ ValidateWorkflow

SpecIncremental == IncrementalInit /\ [][IncrementalNext]_vars

\* C2: parsing the Language-B rendering of a TypeSpec gives the TypeSpec back:
\* CWLParser._parse_cwl_type(t.to_cwl_type()) == t.
C2_CwlTypeRoundTrip == cwl_parsed # None => cwl_parsed[1] = ts

\* C3: parsing the Language-A rendering of a TypeSpec gives the TypeSpec back:
\* WDLParser._parse_type(t.to_wdl_string()) == t.
C3_WdlTypeRoundTrip == wdl_parsed # None => wdl_parsed[1] = ts


\* r is a rendering of t in the structural grammar of CWL types: the bare
\* type string for a non-optional primitive, ["null", <type>] for an optional
\* type, {type: array, items: <type>} for an ARRAY.
RECURSIVE FollowsCwlGrammar(_, _)
FollowsCwlGrammar(t, r) ==
    IF t.optional
    THEN /\ r.kind = "list"
         /\ Len(r.l) = 2
         /\ r.l[1] = "null"
         /\ t.base_type \in Primitives => r.l[2] = cwl_mapping(t.base_type)
    ELSE IF t.base_type = "Array"
    THEN /\ r.kind = "dict"
         /\ r.type = Some("array")
         /\ r.items # None
         /\ FollowsCwlGrammar(t.item_type[1], r.items[1])
    ELSE r = CwlStr(cwl_mapping(t.base_type))

\* C14: TypeSpec.to_cwl_type follows the structural grammar for every
\* TypeSpec: a non-optional primitive is its bare type string, an optional
\* type is the list ["null", <type>] with null first, an ARRAY is the object
\* {type: array, items: <rendering of item_type>}.
C14_CwlTypeGrammar == cwl_type # None => FollowsCwlGrammar(ts, cwl_type[1])

\* the members of a list type that are not null
NonNullMembers(c) == SelectSeq(c.members, LAMBDA x : x # CwlStr("null"))

\* the type a claim names is read as a type of the given base
ReadAs(base) == IsOk(cwl_parsed) /\ cwl_parsed[1].value.base_type = base

\* C26: CWLParser never fails on a type; long gives INT, double gives FLOAT,
\* and every token outside string, int, long, float, double, boolean, File,
\* Directory, every union with more than one non-null member and every
\* object type that is no array gives STRING.
C26_TypeFallbacks ==
    cwl_parsed # None =>
        LET c == cwl_type[1]
        IN /\ IsOk(cwl_parsed)
           /\ c = CwlStr("long") => ReadAs("Int")
           /\ c = CwlStr("double") => ReadAs("Float")
           /\ c.kind = "str" /\ c.s \notin KnownTokens => ReadAs("String")
           /\ c.kind = "listof" /\ Len(NonNullMembers(c)) > 1 => ReadAs("String")
           /\ c.kind = "dict" /\ c.type # Some("array") => ReadAs("String")
(***************************************************************************)
(* Claims about the conversions                                           *)
(***************************************************************************)
\* the documents a Language-B text holds: the document and the entries of its
\* $graph
DocsOf(cwl_doc) == <<cwl_doc>> \o (IF cwl_doc.graph = None THEN <<>> ELSE cwl_doc.graph[1])

\* the requirement entries of a Language-B text
RequirementsOf(cwl_doc) ==
    Concat(Map(DocsOf(cwl_doc),
               LAMBDA d : IF d.requirements = None THEN <<>> ELSE d.requirements[1]))

HasDockerRequirement(cwl_doc, d) ==
    \E i \in 1..Len(RequirementsOf(cwl_doc)) :
        /\ RequirementsOf(cwl_doc)[i].class = "DockerRequirement"
        /\ RequirementsOf(cwl_doc)[i].dockerPull = Some(d)

HasResourceRequirement(cwl_doc, cores, ram) ==
    \E i \in 1..Len(RequirementsOf(cwl_doc)) :
        /\ RequirementsOf(cwl_doc)[i].class = "ResourceRequirement"
        /\ RequirementsOf(cwl_doc)[i].coresMin = Some(cores)
        /\ RequirementsOf(cwl_doc)[i].ramMin = Some(ram)

\* C1: convert_string applied to the source of the single task hello returns
\* Language-B text that contains a CommandLineTool, a DockerRequirement whose
\* dockerPull is ubuntu:20.04, and a ResourceRequirement with coresMin 1 and
\* ramMin 2048.
C1_HelloConversion ==
    (src = Some(HelloSource) /\ converted # None) =>
        /\ IsOk(converted)
        /\ \E i \in 1..Len(DocsOf(converted[1].value)) :
               DocsOf(converted[1].value)[i].class = Some("CommandLineTool")
        /\ HasDockerRequirement(converted[1].value, <<"u","b","u","n","t","u",":","2","0",".","0","4">>)
        /\ HasResourceRequirement(converted[1].value, 1, 2048)

\* the sources whose call stands inside a scatter block, inside an if block
ScatterSources == {ScatterSource, InlineScatterSource}
ConditionalSources == {InlineConditionalSource}

\* C4: WDLParser sets scatter on every call inside a scatter block and
\* conditional on every call inside an if block, and leaves both unset on the
\* calls outside such blocks; a workflow with one call wrapped in
\* scatter (file in files) parses to a workflow with at least one call whose
\* scatter is set.
C4_ParserSetsScatter ==
    (src # None /\ ir # None) =>
        /\ IsOk(ir)
        /\ src[1] \in ScatterSources =>
               \E i \in 1..Len(ir[1].value.calls) : TruthyStr(ir[1].value.calls[i].scatter)
        /\ src[1] \in ConditionalSources =>
               \E i \in 1..Len(ir[1].value.calls) :
                   TruthyStr(ir[1].value.calls[i].conditional)
        /\ src[1] = PlainCallSource =>
               \A i \in 1..Len(ir[1].value.calls) :
                   /\ ir[1].value.calls[i].scatter = None
                   /\ ir[1].value.calls[i].conditional = None

\* the Language-B workflow document of a text: the document, or the first
\* entry of its $graph
WorkflowDocOf(cwl_doc) == IF cwl_doc.graph = None THEN cwl_doc ELSE cwl_doc.graph[1][1]

\* the step written for a call carries scatter and scatterMethod: dotproduct
\* when the call's scatter is set, and neither key otherwise
StepMatchesCall(step, call) ==
    IF TruthyStr(call.scatter)
    THEN step.scatter = call.scatter /\ step.scatterMethod = Some("dotproduct")
    ELSE step.scatter = None /\ step.scatterMethod = None

\* the workflow under conversion has call ids that differ and a scattered call
DistinctCallIds(workflow) ==
    \A i, j \in 1..Len(workflow.calls) :
        workflow.calls[i].call_id = workflow.calls[j].call_id => i = j

\* C5: the step written for a call has scatter (the call's scatter variable)
\* and scatterMethod: dotproduct exactly when the call's scatter is set; and
\* parsing the CWLWriter output of a workflow with a scattered call with
\* CWLParser yields a workflow in which that call is again scattered.
C5_ScatterRoundTrip ==
    (IsOk(ir) /\ ir[1].value.cls = "Workflow" /\ DistinctCallIds(ir[1].value)) =>
        /\ IsOk(cwl_out) =>
               \A i \in 1..Len(ir[1].value.calls) :
                   StepMatchesCall(DictGet(WorkflowDocOf(cwl_out[1].value).steps[1],
                                           ir[1].value.calls[i].call_id),
                                   ir[1].value.calls[i])
        /\ cwl_back # None =>
               \A i \in 1..Len(ir[1].value.calls) :
                   TruthyStr(ir[1].value.calls[i].scatter) =>
                       /\ IsOk(cwl_back)
                       /\ \E j \in 1..Len(cwl_back[1].value.calls) :
                              /\ cwl_back[1].value.calls[j].call_id =
                                     ir[1].value.calls[i].call_id
                              /\ TruthyStr(cwl_back[1].value.calls[j].scatter)

\* a field of an optional runtime
RuntimeField(runtime, field) == IF runtime = None THEN None ELSE runtime[1][field]

NamesAndTypes(params) == Map(params, LAMBDA p : <<p.name, p.type_spec>>)

\* two tasks are equal in name, in the ordered input names and types, in the
\* ordered output names and types, and in runtime docker, cpu and memory
SameTask(t, u) ==
    /\ t.name = u.name
    /\ NamesAndTypes(t.inputs) = NamesAndTypes(u.inputs)
    /\ NamesAndTypes(t.outputs) = NamesAndTypes(u.outputs)
    /\ \A field \in {"docker", "cpu", "memory"} :
           RuntimeField(t.runtime, field) = RuntimeField(u.runtime, field)

\* C6: parsing WDLWriter's own output for a Task with WDLParser yields a task
\* that equals it in name, input names and types, output names and types, and
\* runtime docker, cpu and memory.
C6_WdlTaskRoundTrip ==
    (IsOk(ir) /\ ir[1].value.cls = "Task" /\ wdl_back # None) =>
        /\ IsOk(wdl_back)
        /\ DictHas(wdl_back[1].value.tasks, ir[1].value.name)
        /\ SameTask(DictGet(wdl_back[1].value.tasks, ir[1].value.name), ir[1].value)

\* the task under conversion has a non-empty docker image reference
HasDocker(element) ==
    /\ element.cls = "Task"
    /\ element.runtime # None
    /\ TruthyStr(element.runtime[1].docker)

\* C7: for every Task whose runtime.docker is a non-empty image reference d,
\* the Language-B rendering of the task contains a DockerRequirement with
\* dockerPull d, and parsing that rendering with CWLParser yields a Task whose
\* runtime.docker equals d.
C7_DockerRoundTrip ==
    (IsOk(ir) /\ HasDocker(ir[1].value)) =>
        /\ cwl_out # None =>
               /\ IsOk(cwl_out)
               /\ HasDockerRequirement(cwl_out[1].value, ir[1].value.runtime[1].docker[1])
        /\ cwl_back # None =>
               /\ IsOk(cwl_back)
               /\ cwl_back[1].value.cls = "Task"
               /\ RuntimeField(cwl_back[1].value.runtime, "docker") =
                      ir[1].value.runtime[1].docker

\* the elements of a $graph of a given class
GraphElements(cwl_doc, class) ==
    {k \in 1..Len(cwl_doc.graph[1]) : cwl_doc.graph[1][k].class = Some(class)}

\* C12: the document CWLWriter writes carries cwlVersion at its root; a Task is
\* written as one CommandLineTool mapping; a Workflow with embedded tasks as a
\* $graph list with exactly one CommandLineTool element per embedded task and
\* exactly one Workflow element, whose id is main; a Workflow without embedded
\* tasks as one Workflow mapping without $graph.
C12_DocumentShape ==
    (IsOk(ir) /\ IsOk(cwl_out)) =>
        /\ cwl_out[1].value.cwlVersion # None
        /\ ir[1].value.cls = "Task" =>
               /\ cwl_out[1].value.class = Some("CommandLineTool")
               /\ cwl_out[1].value.graph = None
        /\ (ir[1].value.cls = "Workflow" /\ ir[1].value.tasks # <<>>) =>
               /\ cwl_out[1].value.graph # None
               /\ cwl_out[1].value.class = None
               /\ Len(cwl_out[1].value.graph[1]) = Len(ir[1].value.tasks) + 1
               /\ \E f \in [1..Len(ir[1].value.tasks)
                              -> GraphElements(cwl_out[1].value, "CommandLineTool")] :
                      /\ \A i, j \in DOMAIN f : f[i] = f[j] => i = j
                      /\ \A k \in GraphElements(cwl_out[1].value, "CommandLineTool") :
                             \E i \in DOMAIN f : f[i] = k
                      /\ \A i \in DOMAIN f :
                             cwl_out[1].value.graph[1][f[i]].id
                                 = Some(ir[1].value.tasks[i][2].name)
               /\ Cardinality(GraphElements(cwl_out[1].value, "Workflow")) = 1
               /\ \A k \in GraphElements(cwl_out[1].value, "Workflow") :
                      cwl_out[1].value.graph[1][k].id = Some(<<"m","a","i","n">>)
        /\ (ir[1].value.cls = "Workflow" /\ ir[1].value.tasks = <<>>) =>
               /\ cwl_out[1].value.class = Some("Workflow")
               /\ cwl_out[1].value.graph = None

\* a workflow with two embedded tasks has been written
C12_Witness ==
    /\ IsOk(ir)
    /\ IsOk(cwl_out)
    /\ ir[1].value.cls = "Workflow"
    /\ Len(ir[1].value.tasks) = 2
    /\ cwl_out[1].value.graph # None

\* C13: in every $graph document CWLWriter writes for a Workflow, the run value
\* of each step is "#<id>" where <id> is the id of a CommandLineTool element of
\* the same $graph.
C13_RunReferences ==
    (IsOk(cwl_out) /\ cwl_out[1].value.graph # None) =>
        \A w \in GraphElements(cwl_out[1].value, "Workflow") :
            \A s \in 1..Len(cwl_out[1].value.graph[1][w].steps[1]) :
                \E k \in GraphElements(cwl_out[1].value, "CommandLineTool") :
                    /\ cwl_out[1].value.graph[1][k].id # None
                    /\ cwl_out[1].value.graph[1][w].steps[1][s][2].run
                           = Some(PyStr(<<"#">> \o cwl_out[1].value.graph[1][k].id[1]))


\* the Task a parser returned: the element itself, or the task of that name in
\* the workflow the Language-A parser wraps it in
ParsedTask(element, name) ==
    IF element.cls = "Task" THEN Some(element)
    ELSE IF DictHas(element.tasks, name) THEN Some(DictGet(element.tasks, name))
    ELSE None

\* the runtime of the parsed task has every custom attribute of rt, with its
\* value
KeepsCustomAttributes(rt, parsed) ==
    /\ parsed # None
    /\ parsed[1].runtime # None
    /\ \A i \in 1..Len(rt.custom_attributes) :
           /\ DictHas(parsed[1].runtime[1].custom_attributes, rt.custom_attributes[i][1])
           /\ DictGet(parsed[1].runtime[1].custom_attributes, rt.custom_attributes[i][1])
                  = rt.custom_attributes[i][2]

\* C15: the custom_attributes of a Runtime survive a round trip: for a Task
\* whose Runtime has custom_attributes, writing the task in either language
\* and parsing the result back gives a Runtime whose custom_attributes has
\* every original key with its value.
C15_CustomAttributesKept ==
    (/\ IsOk(ir)
     /\ ir[1].value.cls = "Task"
     /\ ir[1].value.runtime # None
     /\ ir[1].value.runtime[1].custom_attributes # <<>>) =>
        /\ cwl_back # None =>
               /\ IsOk(cwl_back)
               /\ KeepsCustomAttributes(ir[1].value.runtime[1],
                                        ParsedTask(cwl_back[1].value, ir[1].value.name))
        /\ wdl_back # None =>
               /\ IsOk(wdl_back)
               /\ KeepsCustomAttributes(ir[1].value.runtime[1],
                                        ParsedTask(wdl_back[1].value, ir[1].value.name))

\* C17: both parsers reject an unrecognized top-level structure with an error
\* instead of returning an IR: CWLParser.parse_dict fails for every document
\* whose class is neither CommandLineTool nor Workflow (an absent class
\* included), and WDLParser.parse_string fails for a text with no well-formed
\* task or workflow block.
C17_MalformedRejected ==
    /\ (/\ IsOk(cwl_out)
        /\ cwl_back # None
        /\ GetOr(cwl_out[1].value.class, "") \notin {"CommandLineTool", "Workflow"}) =>
           cwl_back[1] = Raised("ValueError")
    /\ (src # None /\ src[1] \in MalformedSources /\ ir # None) => IsRaised(ir)

\* the sources that define one task and no workflow, with the task's name
TaskOnlySources ==
    {[text |-> HelloSource, name |-> <<"h","e","l","l","o">>], [text |-> EchoTaskSource, name |-> <<"a">>]}

\* the workflow has the one task of that name and nothing at its own level
HoldsOnlyTask(workflow, name) ==
    /\ workflow.cls = "Workflow"
    /\ Len(workflow.tasks) = 1
    /\ DictKeys(workflow.tasks) = {name}
    /\ DictGet(workflow.tasks, name).name = name
    /\ workflow.calls = <<>>
    /\ workflow.inputs = <<>>
    /\ workflow.outputs = <<>>

\* C18: WDLParser.parse_string applied to a source that defines one task and
\* no workflow returns a Workflow whose tasks has exactly one entry, keyed by
\* the task's name, and whose calls, inputs and outputs are empty.  The
\* sources are the texts of TaskOnlySources and the texts WDLWriter writes
\* for a Task.
C18_TaskOnlySource ==
    /\ \A s \in TaskOnlySources :
           (src = Some(s.text) /\ ir # None) =>
               IsOk(ir) /\ HoldsOnlyTask(ir[1].value, s.name)
    /\ (IsOk(ir) /\ ir[1].value.cls = "Task" /\ wdl_back # None) =>
           IsOk(wdl_back) /\ HoldsOnlyTask(wdl_back[1].value, ir[1].value.name)

\* C19: a writer never mutates the IR it consumes: over a step in which
\* CWLWriter.write or WDLWriter.write returns, the element, with every Task,
\* Input, Output, Runtime and WorkflowCall it owns, is unchanged.
C19_WritersKeepIR ==
    [][(cwl_out' # cwl_out \/ wdl_out' # wdl_out) => (ir # None /\ ir' = ir)]_vars

\* both writers have written a workflow that owns tasks and calls
C19_Witness ==
    /\ IsOk(ir)
    /\ ir[1].value.cls = "Workflow"
    /\ ir[1].value.tasks # <<>>
    /\ ir[1].value.calls # <<>>
    /\ IsOk(cwl_out)
    /\ IsOk(wdl_out)

\* C24: validate_conversion returns a boolean and never raises; for a
\* Workflow it is true exactly when the name is not empty and the task_name
\* of every call is a key of the workflow's own tasks, for a Task exactly when
\* the name and the command are not empty.
C24_ValidateConversion ==
    (IsOk(ir) /\ conversion_valid # None) =>
        /\ IsOk(conversion_valid)
        /\ conversion_valid[1].value \in BOOLEAN
        /\ ir[1].value.cls = "Workflow" =>
               (conversion_valid[1].value <=>
                    /\ Len(ir[1].value.name) > 0
                    /\ {ir[1].value.calls[i].task_name : i \in 1..Len(ir[1].value.calls)}
                           \subseteq DictKeys(ir[1].value.tasks))
        /\ ir[1].value.cls = "Task" =>
               (conversion_valid[1].value <=>
                    Len(ir[1].value.name) > 0 /\ Len(ir[1].value.command) > 0)

\* a workflow whose two calls name tasks it owns was found valid
C24_Witness ==
    /\ IsOk(ir)
    /\ ir[1].value.cls = "Workflow"
    /\ Len(ir[1].value.calls) = 2
    /\ conversion_valid = Some(Ok(TRUE))

\* a text holds a marker ~{x} or ${x} with an identifier x
HasMarker(text) == Search(var_pattern, 1, text, 1).ok

\* C27: Task.to_cwl_tool emits one argument for each whitespace-separated
\* token of the command, in the order of the tokens, with every marker ~{x}
\* or ${x} translated: a token without a marker is emitted as it is, and no
\* marker remains in any argument, whatever the number of markers of a token.
C27_MarkersTranslated ==
    IsOk(cwl_out) /\ IsOk(ir) /\ ir[1].value.cls = "Task" =>
        LET tokens == SplitWhitespace(Strip(ir[1].value.command))
            arguments == cwl_out[1].value.arguments[1]
        IN /\ Len(arguments) = Len(tokens)
           /\ \A i \in 1..Len(tokens) :
                  /\ ~HasMarker(tokens[i]) => arguments[i] = tokens[i]
                  /\ ~HasMarker(arguments[i])

\* a cross-call reference <call_id>.<output_name>: two identifiers and a dot
IsCallReference(v) ==
    /\ v.kind = "str"
    /\ Len(SplitOn(v.s, ".")) = 2
    /\ \A part \in Range(SplitOn(v.s, ".")) :
           part # <<>> /\ \A k \in 1..Len(part) : part[k] \in WordChars

\* the reference written with the separator of Language B
WithSlash(v) == PyStr(Replace(v.s, <<".">>, <<"/">>))

\* C28: the inputs of a call survive the way to Language B and back: the
\* writer emits a reference call.output as call/output and a literal as it
\* is, and CWLParser._parse_step_inputs gives the inputs of the call back
\* from the written step.
C28_CallInputsRoundTrip ==
    /\ IsOk(cwl_out) /\ IsOk(ir) /\ ir[1].value.cls = "Workflow"
                     /\ Len(ir[1].value.calls) = 1 =>
           LET m == ir[1].value.calls[1].inputs
               written == WorkflowDocOf(cwl_out[1].value).steps[1][1][2].in[1]
           IN /\ Len(written) = Len(m)
              /\ \A i \in 1..Len(m) :
                     /\ written[i][1] = m[i][1]
                     /\ written[i][2] = IF IsCallReference(m[i][2]) THEN WithSlash(m[i][2])
                                        ELSE m[i][2]
    /\ cwl_back # None /\ IsOk(ir) /\ ir[1].value.cls = "Workflow"
                       /\ Len(ir[1].value.calls) = 1 =>
           /\ IsOk(cwl_back)
           /\ cwl_back[1].value = <<ir[1].value.calls[1].inputs>>
(***************************************************************************)
(* Claims about the dependency graph and the validator                     *)
(***************************************************************************)
\* the input value is a reference string d.<output_name>: d, a dot, and a name
\* without a dot
IsReferenceTo(input_value, d) ==
    /\ input_value.kind = "str"
    /\ StartsWith(input_value.s, d \o <<".">>)
    /\ ~Contains(Slice(input_value.s, Len(d) + 2, Len(input_value.s)), <<".">>)

\* C8: the dependency graph has exactly one node per call_id in calls, and an
\* edge d -> c exactly when some input value of call c is a reference string
\* "d.<output_name>" where d is the call_id of a call in the workflow.
C8_DependencyGraph ==
    analyzer # None =>
        /\ analyzer[1].graph.nodes = {call.call_id : call \in Range(wf.calls)}
        /\ analyzer[1].graph.edges =
               {e \in {call.call_id : call \in Range(wf.calls)}
                        \X {call.call_id : call \in Range(wf.calls)} :
                  \E call \in Range(wf.calls) :
                      /\ call.call_id = e[2]
                      /\ \E kv \in Range(call.inputs) : IsReferenceTo(kv[2], e[1])}

\* the graph of a workflow with the calls A and B has been built: B depends on
\* A, and an input of B names a call the workflow does not have
C8_Witness ==
    /\ analyzer # None
    /\ analyzer[1].graph.nodes = {<<"A">>, <<"B">>}
    /\ analyzer[1].graph.edges = {<<<<"A">>, <<"B">>>>}
    /\ \E call \in Range(wf.calls) :
           \E kv \in Range(call.inputs) : kv[2] = PyStr(<<"A",".","o","u","t",".","m","o","r","e">>)

\* the workflow has the calls A and B, A takes an input that references an
\* output of B and B one that references an output of A, and there is no other
\* dependency
MutualDependency(workflow) ==
    /\ {call.call_id : call \in Range(workflow.calls)} = {<<"A">>, <<"B">>}
    /\ get_dependency_graph(workflow).edges = {<<<<"A">>, <<"B">>>>, <<<<"B">>, <<"A">>>>}

CircularFindings(errors) ==
    {i \in 1..Len(errors) :
        StartsWith(errors[i].message, <<"C","i","r","c","u","l","a","r"," ","d","e","p","e","n","d","e","n","c","y"," ","d","e","t","e","c","t","e","d",":"," ">>)}

\* C9: for a workflow whose calls A and B depend on each other,
\* validate_workflow reports exactly one circular-dependency finding, of level
\* ERROR and naming the cycle A, B in either rotation, and returns invalid;
\* get_execution_order returns an empty result.
C9_CycleReported ==
    MutualDependency(wf) =>
        /\ validation # None =>
               /\ IsOk(validation)
               /\ ~validation[1].value.valid
               /\ Cardinality(CircularFindings(validation[1].value.errors)) = 1
               /\ \A i \in CircularFindings(validation[1].value.errors) :
                      /\ validation[1].value.errors[i].level = "ERROR"
                      /\ validation[1].value.errors[i].message \in
                             {<<"C","i","r","c","u","l","a","r"," ","d","e","p","e","n","d","e","n","c","y"," ","d","e","t","e","c","t","e","d",":"," ","A"," ","-",">"," ","B">>,
                              <<"C","i","r","c","u","l","a","r"," ","d","e","p","e","n","d","e","n","c","y"," ","d","e","t","e","c","t","e","d",":"," ","B"," ","-",">"," ","A">>}
        /\ execution_order # None => execution_order[1] = Ok(<<>>)

\* the calls of a workflow with a given call_id, and those of them whose
\* task_name is no key of the workflow's tasks
CallsWithId(workflow, id) == {i \in 1..Len(workflow.calls) : workflow.calls[i].call_id = id}

Unresolved(workflow) ==
    {i \in 1..Len(workflow.calls) : ~DictHas(workflow.tasks, workflow.calls[i].task_name)}

\* the findings located at a call
FindingsAt(errors, id) == {k \in 1..Len(errors) : errors[k].location = <<"c","a","l","l",".">> \o id}

\* C11: for a call whose task_name is no key of the workflow's tasks,
\* validate_workflow gives exactly one finding for that call, of level WARNING
\* (so the workflow is invalid only when some other finding is an ERROR), and
\* validate_conversion returns false for the workflow.
C11_UnknownTaskWarning ==
    /\ validation # None =>
           /\ IsOk(validation)
           /\ validation[1].value.valid =
                  (\A k \in 1..Len(validation[1].value.errors) :
                       validation[1].value.errors[k].level # "ERROR")
           /\ \A i \in Unresolved(wf) :
                  CallsWithId(wf, wf.calls[i].call_id) \subseteq Unresolved(wf) =>
                      /\ Cardinality(FindingsAt(validation[1].value.errors, wf.calls[i].call_id))
                             = Cardinality(CallsWithId(wf, wf.calls[i].call_id))
                      /\ \A k \in FindingsAt(validation[1].value.errors, wf.calls[i].call_id) :
                             validation[1].value.errors[k].level = "WARNING"
    /\ (conversion_valid # None /\ Unresolved(wf) # {}) => conversion_valid[1] = Ok(FALSE)

\* a workflow with a task and two calls, one of which names a task the workflow
\* does not have, has been validated both ways: it is valid for the validator
C11_Witness ==
    /\ IsOk(validation)
    /\ conversion_valid # None
    /\ wf.tasks # <<>>
    /\ Cardinality(Unresolved(wf)) = 1
    /\ Len(wf.calls) = 2
    /\ validation[1].value.valid


\* C20: the dependency graph the analysis consults is derived from the
\* workflow's current calls and is never a stored copy: after any sequence of
\* add_call operations, the graph the queries of WorkflowGraphAnalyzer use
\* equals get_dependency_graph() of the workflow at the time of the query.
C20_GraphOnDemand ==
    analyzer # None =>
        /\ analyzer[1].workflow = wf
        /\ analyzer[1].graph = get_dependency_graph(wf)

\* C21: in every Workflow reached by a sequence of add_call operations the
\* call_id is unique: no two entries of calls have the same call_id, so the
\* dependency graph has one node for each call.
C21_UniqueCallIds ==
    /\ \A i, j \in 1..Len(wf.calls) : wf.calls[i].call_id = wf.calls[j].call_id => i = j
    /\ Cardinality(get_dependency_graph(wf).nodes) = Len(wf.calls)

\* the findings hold the unknown-task warning of the call
UnknownTaskWarning(errors, call) ==
    \E k \in 1..Len(errors) :
        /\ errors[k].level = "WARNING"
        /\ errors[k].message = <<"C","a","l","l"," ","'">> \o call.call_id \o <<"'"," ","r","e","f","e","r","e","n","c","e","s"," ","u","n","k","n","o","w","n"," ","t","a","s","k"," ","'">>
                                 \o call.task_name \o <<"'">>

\* C22: the IR is built in any order: add_call appends the call whether or
\* not the task it names exists and whatever dependencies it closes, add_task
\* leaves the calls alone, and neither resolves anything; the references are
\* resolved when validate_workflow runs, against the tasks the workflow has
\* then: the unknown-task warning is reported for a call exactly when its
\* task_name is no key of tasks at that time, so it is gone once the task has
\* been added.
C22_ResolvedAtValidation ==
    [][/\ wf'.calls # wf.calls =>
              /\ \E call \in GraphCalls : wf'.calls = Append(wf.calls, call)
              /\ wf'.tasks = wf.tasks
              /\ validation' = validation
       /\ wf'.tasks # wf.tasks => wf'.calls = wf.calls /\ validation' = validation
       /\ (validation = None /\ validation' # None) =>
              /\ IsOk(validation')
              /\ \A i \in 1..Len(wf.calls) :
                     UnknownTaskWarning(validation'[1].value.errors, wf.calls[i])
                         <=> ~DictHas(wf.tasks, wf.calls[i].task_name)]_vars

\* the workflow has been validated with the task hello and two calls of it
\* that depend on each other, and no unknown-task warning was reported
C22_Witness ==
    /\ IsOk(validation)
    /\ DictHas(wf.tasks, <<"h","e","l","l","o">>)
    /\ get_dependency_graph(wf).edges = {<<<<"A">>, <<"B">>>>, <<<<"B">>, <<"A">>>>}
    /\ \A i \in 1..Len(wf.calls) : ~UnknownTaskWarning(validation[1].value.errors, wf.calls[i])

\* the result is the pair (ok, findings) in which ok is true exactly when no
\* finding has the level ERROR
OkIffNoError(result) ==
    /\ result.valid \in BOOLEAN
    /\ result.valid <=> \A k \in 1..Len(result.errors) : result.errors[k].level # "ERROR"

\* C23: validate_workflow and validate_task never raise: they return a pair
\* (ok, findings), and ok is true exactly when no finding has the level
\* ERROR; WARNING and INFO findings never make the result invalid.
C23_ValidIffNoError ==
    /\ validation # None => IsOk(validation) /\ OkIffNoError(validation[1].value)
    /\ task_validation # None => IsOk(task_validation) /\ OkIffNoError(task_validation[1].value)

\* a workflow and a task of it were both found valid with a WARNING among the
\* findings
C23_Witness ==
    /\ IsOk(validation)
    /\ validation[1].value.valid
    /\ \E k \in 1..Len(validation[1].value.errors) :
           validation[1].value.errors[k].level = "WARNING"
    /\ IsOk(task_validation)
    /\ task_validation[1].value.valid
    /\ \E k \in 1..Len(task_validation[1].value.errors) :
           task_validation[1].value.errors[k].level = "WARNING"

\* the nodes of a graph that lie on a cycle: those that reach themselves
OnCycle(graph) == {n \in graph.nodes : n \in ReachingTo(graph, Predecessors(graph, {n}))}

\* the nodes that lie on a cycle or depend, directly or not, on one that does
BlockedByCycle(graph) ==
    {n \in graph.nodes : ReachingTo(graph, {n}) \cap OnCycle(graph) # {}}

\* the position of the group that holds a node
GroupOf(result, n) == CHOOSE k \in 1..Len(result) : n \in result[k]

\* the groups get_parallel_groups has returned are as the claim tells
GroupsAsClaimed(graph, result) ==
    /\ \A k \in 1..Len(result) : result[k] # {}
    /\ \A k, l \in 1..Len(result) : k # l => result[k] \cap result[l] = {}
    /\ UNION Range(result) = graph.nodes \ BlockedByCycle(graph)
    /\ OnCycle(graph) = {} =>
           \A e \in graph.edges : GroupOf(result, e[1]) < GroupOf(result, e[2])

\* C30: get_parallel_groups always terminates; on an acyclic graph the
\* groups it returns are non-empty, pairwise disjoint, cover every call_id,
\* and every edge d -> c has d in a strictly earlier group than c; on a
\* graph with a cycle the result omits exactly the calls that lie on a cycle
\* or depend on one.
C30_ParallelGroups ==
    /\ <>(parallel_groups # None)
    /\ [](parallel_groups # None =>
              GroupsAsClaimed(analyzer[1].graph, parallel_groups[1]))
(***************************************************************************)
(* Claims about convert_directory                                          *)
(***************************************************************************)
\* the .wdl files found under the source directory
FoundSources ==
    {e.path : e \in {f \in wdl_tree : /\ EndsWith(Last(f.path), <<".","w","d","l">>)
                                      /\ recursive \/ Len(f.path) = 1}}

\* the positions of the log at which the conversion of a file was begun, and
\* at which it was reported done
AttemptsOf(path) ==
    {i \in 1..Len(log) : log[i].message = <<"P","a","r","s","i","n","g"," ","W","D","L"," ","f","i","l","e",":"," ">> \o PathStr(WdlDirName, path)}

Converted(path) ==
    \E i \in 1..Len(log) : log[i].message = <<"C","o","n","v","e","r","t","e","d",":"," ">> \o Join(path, <<"/">>)

Failed(path) ==
    \E i \in 1..Len(log) :
        /\ log[i].level = "ERROR"
        /\ log[i].message = <<"F","a","i","l","e","d"," ","t","o"," ","c","o","n","v","e","r","t"," ">> \o Join(path, <<"/">>) \o <<":"," ">>

\* C10: convert_directory attempts the conversion of every .wdl file found
\* under the source directory exactly once; a failure while converting one
\* file is logged and never prevents a later file from being converted, and
\* the call returns normally; every file that converts successfully is written
\* under the destination at the same relative path with the extension
\* replaced by .cwl.
C10_DirectoryConversion ==
    outcome # None =>
        /\ IsOk(outcome)
        /\ \A path \in FoundSources :
               /\ Cardinality(AttemptsOf(path)) = 1
               /\ Converted(path) \/ Failed(path)
               /\ Converted(path) =>
                      \E e \in cwl_tree :
                          /\ e.path = SubSeq(path, 1, Len(path) - 1)
                                        \o <<Slice(Last(path), 1, Len(Last(path)) - 4)
                                               \o <<".","c","w","l">>>>
                          /\ e.kind = "file"
                          /\ e.content # None

(***************************************************************************)
(* Claims on the conversion of one file.                                   *)
(***************************************************************************)
\* the element the parser reads from the source file of the working directory
ParsedSource ==
    WDL_parse_string(FileAt(fs, wdl_path)[1].content[1], Join(wdl_path, <<"/">>))

\* the file at a path holds the rendering of the element of the source
HoldsRendering(path) ==
    /\ FileAt(fs, path) # None
    /\ FileAt(fs, path)[1].kind = "file"
    /\ FileAt(fs, path)[1].content = Some(element_to_cwl(ParsedSource))

\* no file but the source holds a content: nothing has been written
NothingWritten ==
    \A i \in 1..Len(fs) : fs[i].path # wdl_path => fs[i].content = None

UnitScale(u) == CASE u = "M" -> 1 [] u = "G" -> 1024 [] u = "T" -> 1024 * 1024

\* the list of requirements has a ResourceRequirement whose ramMin is mb
HasRamMin(reqs, mb) ==
    \E i \in 1..Len(reqs) :
        reqs[i].class = "ResourceRequirement" /\ reqs[i].ramMin = Some(mb)

\* the list of requirements has a ResourceRequirement whose outdirMin is mb
HasOutdirMin(reqs, mb) ==
    \E i \in 1..Len(reqs) :
        reqs[i].class = "ResourceRequirement" /\ reqs[i].outdirMin = Some(mb)

\* C16: Runtime normalizes memory and disk strings to a number of MB by
\* suffix: "<n>M" gives n, "<n>G" gives n*1024, "<n>T" gives n*1024*1024;
\* the normalized memory is emitted as ramMin and the normalized disk as
\* outdirMin.
C16_AmountsNormalized ==
    cwl_requirements # None =>
        \A n \in 0..MaxAmount, u \in Units :
            /\ task_runtime.memory = Some(Amount(n, u)) =>
                   /\ IsOk(cwl_requirements)
                   /\ HasRamMin(cwl_requirements[1].value, n * UnitScale(u))
            /\ task_runtime.disk = Some(Amount(n, u)) =>
                   /\ IsOk(cwl_requirements)
                   /\ HasOutdirMin(cwl_requirements[1].value, n * UnitScale(u))

(***************************************************************************)
(* Claims on BatchProcessor.process_parallel.                              *)
(***************************************************************************)
\* what position i of the returned list holds by the claim
ExpectedResult(item) ==
    IF process_func(item).status = "ok" THEN ResultValue(process_func(item).value)
    ELSE ErrorRecord(process_func(item).exc)

\* C29: whatever the order in which the workers finish, process_parallel
\* returns a list as long as items whose position i holds the result of
\* process_func(items[i]), or the error record when that call raised, and
\* the progress callback is invoked exactly len(items) times, with the
\* counts 1, 2, ..., len(items) in this order.
C29_ParallelResults ==
    /\ batch_return # None =>
           /\ IsOk(batch_return)
           /\ Len(batch_return[1].value) = Len(batch_items)
           /\ \A i \in 1..Len(batch_items) :
                  batch_return[1].value[i] = ExpectedResult(batch_items[i])
           /\ progress_callback # None =>
                  progress_calls = [k \in 1..Len(batch_items) |-> <<k, Len(batch_items)>>]
    /\ \A k \in 1..Len(progress_calls) : progress_calls[k] = <<k, Len(batch_items)>>

====
